---- MODULE Spec2Model ----
\* A model of node-anemometer: the Anemometer facade (src/src/index.ts, first
\* class of the file), the History window (src/unnamed/part_003), the PCF8583
\* counter chip driver (src/src/utils/PCF8583.ts) and the aggregation helpers
\* (src/src/utils/utilities.ts).
EXTENDS Integers, Sequences, FiniteSets, TLC

\* ---------------------------------------------------------------- bounds
MaxNow == 2            \* the clock runs from 0 to MaxNow seconds
MaxPulses == 1         \* pulse bursts the wind delivers to the chip
MaxCalls == 3          \* open()/close() calls the caller issues in one run
MaxRetries == 2        \* opts.retries is drawn from 1..MaxRetries
MaxElements == 3       \* history.maxElements is drawn from 1..MaxElements
MaxExpiration == 2     \* history.expirationTime is drawn from 1..MaxExpiration
MaxLen == 4            \* longest sample list handed to the aggregation helpers
MaxTs == 2             \* largest timestamp in such a list
MaxTicks == 11         \* ticks the sampling specification runs

\* ---------------------------------------------------------------- program constants
RolloverThreshold == 900000    \* index.ts: if (count > 900000)
CounterLimit == 999999         \* PCF8583.setCount: value > 999999 is invalid

PulseSteps == {900000, 900001} \* size of one pulse burst: up to the threshold, or past it
Calls == 1..MaxCalls
Timers == 1..MaxCalls         \* every open() starts at most one timer

VARIABLES
    retries,         \* opts.retries
    readFailed,      \* TRUE when opts.readFailed is set
    maxElements,     \* History.maxElements
    expirationTime,  \* History.expirationTime
    budget,          \* how many open()/close() calls the caller issues
    horizon,         \* the last second of the run
    now,             \* History.getUnixTS(): the clock, in seconds
    data,            \* History.data: sequence of [value, timestamp]
    wire,            \* PCF8583.wire !== null
    counter,         \* the chip's event counter register
    mode,            \* the chip's function mode
    pulsesLeft,      \* pulse bursts still to come
    readInterval,    \* Anemometer.readInterval: 0 is null, else a timer
    timers,          \* the SetIntervalAsyncTimer objects and their running tick
    calls,           \* the open()/close() calls that have not settled yet
    nextCall,        \* number of the next call the caller issues
    lastDone,        \* the open()/close() call that settled last
    aggIn,           \* input of the aggregation helper under check
    aggOut,          \* its result, or the outcome of a query of the facade
    lastOp,          \* the History operation or query executed last
    returned,        \* the array a caller holds from History.get
    bus,             \* the chip's registers and the bus transactions made on them
    wind             \* the pulses the wind has delivered to the chip, as the
                     \* sampling specification accounts for them

vars == <<retries, readFailed, maxElements, expirationTime, budget, horizon, now, data, wire,
          counter, mode, pulsesLeft, readInterval, timers, calls, nextCall,
          lastDone, aggIn, aggOut, lastOp, returned, bus, wind>>

config == <<retries, readFailed, maxElements, expirationTime, budget, horizon>>
chipVars == <<wire, counter, mode>>
callVars == <<calls, nextCall, lastDone>>
aggVars == <<aggIn, aggOut, lastOp, returned, bus, wind>>

\* ---------------------------------------------------------------- History
DataRecord(v, ts) == [value |-> v, timestamp |-> ts]

\* Array.prototype.shift(): drops the first element, a no-op on the empty array
Shift(s) == IF Len(s) = 0 THEN s ELSE Tail(s)

\* Array.prototype.slice(-n) for n > 0: the last n elements
SliceLast(s, n) == IF Len(s) <= n THEN s ELSE SubSeq(s, Len(s) - n + 1, Len(s))

\* History.push(value), a push that never evicts (mutant)
push_noEvict(d, value, ts) == Append(d, DataRecord(value, ts))

\* History.push(value) with unshift: the new record goes in front (mutant)
push_front(d, value, ts) ==
    <<DataRecord(value, ts)>>
        \o (IF maxElements > 0 /\ Len(d) + 1 >= maxElements THEN Shift(d) ELSE d)

\* History.push(value)
push(d, value, ts) ==
    LET kept == IF maxElements > 0 /\ Len(d) + 1 >= maxElements THEN Shift(d) ELSE d
    IN  Append(kept, DataRecord(value, ts))

\* History.clean() without the expiration filter (mutant)
clean_noExpiry(d, ts) == IF maxElements > 0 THEN SliceLast(d, maxElements) ELSE d

\* History.clean() that also drops the oldest record it kept (mutant)
clean_dropOldest(d, ts) ==
    Shift(SelectSeq(IF maxElements > 0 THEN SliceLast(d, maxElements) ELSE d,
                    LAMBDA record : record.timestamp >= ts - expirationTime + 1))

\* History.clean() that also removes the samples stamped beginOfValidData (mutant)
clean_strict(d, ts) ==
    SelectSeq(IF maxElements > 0 THEN SliceLast(d, maxElements) ELSE d,
              LAMBDA record : record.timestamp > ts - expirationTime + 1)

\* History.clean()
clean(d, ts) ==
    LET beginOfValidData == ts - expirationTime + 1
        capped == IF maxElements > 0 THEN SliceLast(d, maxElements) ELSE d
    IN  SelectSeq(capped, LAMBDA record : record.timestamp >= beginOfValidData)

\* ---------------------------------------------------------------- processes
NoTimer == [status |-> "unused", pc |-> "idle", i |-> 0, live |-> FALSE,
            ops |-> <<>>]
NoCall == [op |-> "none", pc |-> "-", seq |-> 0, tmr |-> 0, live |-> FALSE,
           result |-> "-", from |-> "-", ops |-> <<>>]

\* Anemometer.isReady
isReady == readInterval # 0

Pending(c) == calls[c].op # "none"
NoPending == \A c \in Calls : ~Pending(c)

\* the lifecycle state a caller finds the instance in
LifecycleState ==
    IF ~NoPending THEN "Busy"
    ELSE IF isReady /\ wire THEN "Running"
    ELSE IF ~isReady /\ ~wire THEN "Closed"
    ELSE IF wire THEN "HalfOpen"
    ELSE "Detached"

\* program points that wait for a bus transaction
IoPcs == {"reset", "setMode", "setCount", "getCount", "rollover"}

TickInFlight(t) == timers[t].pc # "idle"

\* clearIntervalAsync resolves its waiters in the order they called it
FirstWaiter(c) ==
    \A d \in Calls : ~(calls[d].pc = "clear" /\ calls[d].tmr = calls[c].tmr
                       /\ calls[d].seq < calls[c].seq)

\* A continuation that is already runnable as a promise job: it runs before
\* any timer or bus callback of the event loop.
JobPending ==
    \/ \E c \in Calls :
          \/ calls[c].pc \in {"chipOpen", "chipClose", "start"}
          \/ calls[c].pc = "clear" /\ ~TickInFlight(calls[c].tmr)
          \/ calls[c].pc \in IoPcs /\ ~calls[c].live
    \/ \E t \in Timers : timers[t].pc \in IoPcs /\ ~timers[t].live

\* the bus transactions awaiting their callback
InFlight ==
    Cardinality({c \in Calls : calls[c].pc \in IoPcs /\ calls[c].live})
    + Cardinality({t \in Timers : timers[t].pc \in IoPcs /\ timers[t].live})

\* a bus call that settles as the bus decides, whether the connection was
\* open or not when it was issued (mutant)
Settles_unchecked(live, ok) == live => ~JobPending

\* A bus call settles: a call issued on a closed connection is rejected by
\* i2cWriteBytes/i2cReadBytes at once, one issued on an open connection
\* settles from the event loop and the bus decides whether it succeeds.
Settles(live, ok) ==
    /\ ok => live
    /\ live => ~JobPending

\* what a successful chip call does to the chip
ChipEffect(stage) ==
    CASE stage = "reset"    -> counter' = 0 /\ mode' = "clock"
      [] stage = "setMode"  -> mode' = "counter" /\ UNCHANGED counter
      [] stage = "setCount" -> counter' = 0 /\ UNCHANGED mode
      [] stage = "rollover" -> counter' = 0 /\ UNCHANGED mode

\* the chip call resetChip() issues after `stage`, setMode() left out (mutant)
NextStage_noMode(stage) == "setCount"

\* the chip call resetChip() issues after `stage`
NextStage(stage) == IF stage = "reset" THEN "setMode" ELSE "setCount"

\* a stopped timer whose handler has returned is never looked at again
Tidy(timer) ==
    IF timer.status = "stopped" /\ timer.pc = "idle"
    THEN [NoTimer EXCEPT !.status = "stopped"]
    ELSE timer

\* clearIntervalAsync(timer), its synchronous part: timer.stopped = true
StopTimer(t) == [timers EXCEPT ![t] = Tidy([@ EXCEPT !.status = "stopped"])]

\* ---------------------------------------------------------------- PCF8583.open / close
\* PCF8583.open() without its guard (mutant)
chipOpen_unguarded(call) == [call EXCEPT !.pc = "chipOpen"]

\* PCF8583.open(), up to its await: throws when the connection is open
chipOpen(call) ==
    IF wire THEN [call EXCEPT !.pc = "done", !.result = "AlreadyOpen"]
    ELSE [call EXCEPT !.pc = "chipOpen"]

\* PCF8583.close(), up to its await: throws when the connection is closed
chipClose(call) ==
    IF ~wire THEN [call EXCEPT !.pc = "done", !.result = "AlreadyClosed"]
    ELSE [call EXCEPT !.pc = "chipClose"]

\* ---------------------------------------------------------------- the caller's calls
FreeSlot == CHOOSE c \in Calls : ~Pending(c) /\ \A d \in Calls : d < c => Pending(d)

\* what is remembered of a call once its promise has settled
Settled(call) ==
    [op |-> call.op, from |-> call.from, result |-> call.result, ops |-> call.ops]

\* call slot c goes on as `call`, or settles
Advance(c, call) ==
    IF call.pc = "done"
    THEN /\ calls' = [calls EXCEPT ![c] = NoCall]
         /\ lastDone' = Settled(call)
    ELSE /\ calls' = [calls EXCEPT ![c] = call]
         /\ UNCHANGED lastDone

\* a new call: with a timer running, open() and close() both start with
\* await clearIntervalAsync(this.readInterval)
NewCall(op) ==
    [NoCall EXCEPT !.op = op, !.seq = nextCall, !.from = LifecycleState,
                   !.pc = IF readInterval # 0 THEN "clear" ELSE "-",
                   !.tmr = readInterval]

\* ---------------------------------------------------------------- Anemometer.open
\* open() is called
open_call ==
    /\ nextCall <= budget
    /\ nextCall' = nextCall + 1
    /\ IF readInterval # 0
       THEN /\ timers' = StopTimer(readInterval)
            /\ Advance(FreeSlot, NewCall("open"))
       ELSE /\ Advance(FreeSlot, chipOpen(NewCall("open")))
            /\ UNCHANGED timers
    /\ UNCHANGED <<config, now, data, chipVars, pulsesLeft, readInterval, aggVars>>

\* clearIntervalAsync has resolved: readInterval = null, then chip.open()
open_cleared(c) ==
    /\ calls[c].op = "open" /\ calls[c].pc = "clear"
    /\ ~TickInFlight(calls[c].tmr)
    /\ FirstWaiter(c)
    /\ readInterval' = 0
    /\ Advance(c, chipOpen(calls[c]))
    /\ UNCHANGED <<config, now, data, chipVars, pulsesLeft, timers, nextCall, aggVars>>

\* chip.open() has resolved: the connection is stored, resetChip() issues reset()
open_chipOpened(c) ==
    /\ calls[c].op = "open" /\ calls[c].pc = "chipOpen"
    /\ wire' = TRUE
    /\ Advance(c, [calls[c] EXCEPT !.pc = "reset", !.live = TRUE,
                                   !.ops = Append(@, "open")])
    /\ UNCHANGED <<config, now, data, counter, mode, pulsesLeft, readInterval,
                   timers, nextCall, aggVars>>

\* resetChip() inside open(): reset() or setMode() has settled
open_resetChip(c) ==
    /\ calls[c].op = "open" /\ calls[c].pc \in {"reset", "setMode"}
    /\ \E ok \in BOOLEAN :
          /\ Settles(calls[c].live, ok)
          /\ IF ok
             THEN /\ ChipEffect(calls[c].pc)
                  /\ Advance(c, [calls[c] EXCEPT !.pc = NextStage(@), !.live = wire,
                                                 !.ops = Append(@, calls[c].pc)])
             ELSE /\ Advance(c, [calls[c] EXCEPT !.pc = "done", !.result = "ioError"])
                  /\ UNCHANGED <<counter, mode>>
    /\ UNCHANGED <<config, now, data, wire, pulsesLeft, readInterval, timers,
                   nextCall, aggVars>>

\* resetChip() inside open(): setCount(0) has settled, then history.push(0)
open_setCount(c) ==
    /\ calls[c].op = "open" /\ calls[c].pc = "setCount"
    /\ \E ok \in BOOLEAN :
          /\ Settles(calls[c].live, ok)
          /\ IF ok
             THEN /\ ChipEffect("setCount")
                  /\ data' = push(data, 0, now)
                  /\ Advance(c, [calls[c] EXCEPT !.pc = "start",
                                                 !.ops = @ \o <<"setCount", "push">>])
             ELSE /\ Advance(c, [calls[c] EXCEPT !.pc = "done", !.result = "ioError"])
                  /\ UNCHANGED <<counter, mode, data>>
    /\ UNCHANGED <<config, now, wire, pulsesLeft, readInterval, timers, nextCall, aggVars>>

\* the timer object setIntervalAsync creates
FreeTimer == CHOOSE t \in Timers : timers[t].status = "unused"
                                   /\ \A u \in Timers : u < t => timers[u].status # "unused"

\* readInterval = setIntervalAsync(...): open() resolves
open_start(c) ==
    /\ calls[c].op = "open" /\ calls[c].pc = "start"
    /\ readInterval' = FreeTimer
    /\ timers' = [timers EXCEPT ![FreeTimer] = [NoTimer EXCEPT !.status = "active"]]
    /\ Advance(c, [calls[c] EXCEPT !.pc = "done", !.result = "ok",
                                   !.ops = Append(@, "start")])
    /\ UNCHANGED <<config, now, data, chipVars, pulsesLeft, nextCall, aggVars>>

\* ---------------------------------------------------------------- Anemometer.close
\* close() is called
close_call ==
    /\ nextCall <= budget
    /\ nextCall' = nextCall + 1
    /\ IF readInterval # 0
       THEN /\ timers' = StopTimer(readInterval)
            /\ Advance(FreeSlot, NewCall("close"))
       ELSE /\ Advance(FreeSlot, chipClose(NewCall("close")))
            /\ UNCHANGED timers
    /\ UNCHANGED <<config, now, data, chipVars, pulsesLeft, readInterval, aggVars>>

\* clearIntervalAsync has resolved: readInterval = null, then chip.close()
close_cleared(c) ==
    /\ calls[c].op = "close" /\ calls[c].pc = "clear"
    /\ ~TickInFlight(calls[c].tmr)
    /\ FirstWaiter(c)
    /\ readInterval' = 0
    /\ Advance(c, chipClose(calls[c]))
    /\ UNCHANGED <<config, now, data, chipVars, pulsesLeft, timers, nextCall, aggVars>>

\* chip.close() has resolved: wire = null, close() resolves
close_chipClosed(c) ==
    /\ calls[c].op = "close" /\ calls[c].pc = "chipClose"
    /\ wire' = FALSE
    /\ Advance(c, [calls[c] EXCEPT !.pc = "done", !.result = "ok",
                                   !.ops = Append(@, "close")])
    /\ UNCHANGED <<config, now, data, counter, mode, pulsesLeft, readInterval,
                   timers, nextCall, aggVars>>

\* ---------------------------------------------------------------- the periodic task
\* the handler returns or throws; the dynamic timer schedules the next tick
\* when it has not been stopped
tickEnd(t, entries) ==
    [timers EXCEPT ![t] = Tidy([@ EXCEPT !.pc = "idle", !.live = FALSE,
                                         !.ops = @ \o entries])]

\* the timer fires: the handler enters its retry loop, or resetChip() at
\* once when the loop has nothing to try
tick_start(t) ==
    /\ timers[t].status = "active" /\ timers[t].pc = "idle"
    /\ ~JobPending
    /\ timers' = [timers EXCEPT ![t].i = 0, ![t].ops = <<>>, ![t].live = wire,
                                ![t].pc = IF 0 < retries THEN "getCount" ELSE "reset"]
    /\ UNCHANGED <<config, now, data, chipVars, pulsesLeft, readInterval, callVars,
                   aggVars>>

\* runSave(promise, null, readFailed), the catch branch: what a failed read
\* adds to the tick's record
runSave_catch(threw) ==
    IF readFailed THEN <<"read_fail", IF threw THEN "cb_throw" ELSE "cb_ok">>
    ELSE <<"read_fail">>

\* if (count >= 900000), the threshold itself included (mutant)
nearRollover_orEqual(count) == count >= RolloverThreshold

\* the rollover test with the counter's maximum as its threshold (mutant)
nearRollover_atLimit(count) == count > CounterLimit

\* if (count > 900000)
nearRollover(count) == count > RolloverThreshold

\* the handler after a successful read of v
tick_store(t, v) ==
    /\ data' = push(clean(data, now), v, now)
    /\ timers' = IF nearRollover(v)
                 THEN [timers EXCEPT ![t].pc = "rollover", ![t].live = wire,
                                     ![t].ops = @ \o <<"read_ok", "clean", "push">>]
                 ELSE tickEnd(t, <<"read_ok", "clean", "push">>)

\* the handler after a failed read, a throwing callback ending the tick (mutant)
tick_retry_abort(t, threw) ==
    /\ timers' = IF threw
                 THEN tickEnd(t, runSave_catch(threw))
                 ELSE [timers EXCEPT ![t].i = @ + 1, ![t].live = wire,
                                     ![t].ops = @ \o runSave_catch(threw),
                                     ![t].pc = IF timers[t].i + 1 < retries
                                               THEN "getCount" ELSE "reset"]
    /\ UNCHANGED data

\* the handler after a failed read: the next attempt, or resetChip()
tick_retry(t, threw) ==
    /\ timers' = [timers EXCEPT ![t].i = @ + 1, ![t].live = wire,
                                ![t].ops = @ \o runSave_catch(threw),
                                ![t].pc = IF timers[t].i + 1 < retries
                                          THEN "getCount" ELSE "reset"]
    /\ UNCHANGED data

\* chip.getCount() has settled inside runSave
tick_getCount(t) ==
    /\ timers[t].pc = "getCount"
    /\ \E ok \in BOOLEAN :
          /\ Settles(timers[t].live, ok)
          /\ IF ok
             THEN tick_store(t, counter)
             ELSE \E threw \in BOOLEAN : (threw => readFailed) /\ tick_retry(t, threw)
    /\ UNCHANGED <<config, now, chipVars, pulsesLeft, readInterval, callVars, aggVars>>

\* runSave(this.resetChip()) when a chip call of resetChip() fails, pushing
\* the zero sample all the same (mutant)
heal_failed_push(t) ==
    /\ timers' = tickEnd(t, <<"heal_fail">>)
    /\ data' = push(data, 0, now)

\* runSave(this.resetChip()) when a chip call of resetChip() fails: runSave
\* swallows the error and the handler returns
heal_failed(t) ==
    /\ timers' = tickEnd(t, <<"heal_fail">>)
    /\ UNCHANGED data

\* runSave(this.resetChip()): reset(), setMode() or setCount(0) has settled
tick_resetChip(t) ==
    /\ timers[t].pc \in {"reset", "setMode", "setCount"}
    /\ \E ok \in BOOLEAN :
          /\ Settles(timers[t].live, ok)
          /\ IF ok
             THEN /\ ChipEffect(timers[t].pc)
                  /\ IF timers[t].pc = "setCount"
                     THEN /\ data' = push(data, 0, now)
                          /\ timers' = tickEnd(t, <<"setCount", "push">>)
                     ELSE /\ timers' = [timers EXCEPT ![t].pc = NextStage(@),
                                                      ![t].live = wire,
                                                      ![t].ops = Append(@, timers[t].pc)]
                          /\ UNCHANGED data
             ELSE /\ heal_failed(t)
                  /\ UNCHANGED <<counter, mode>>
    /\ UNCHANGED <<config, now, wire, pulsesLeft, readInterval, callVars, aggVars>>

\* await this.chip.setCount(0) after a count > 900000 has failed: the await
\* is not wrapped in runSave, so the handler's promise rejects
rollover_failed(t) == tickEnd(t, <<"rollover_fail", "throw">>)

\* The same rejection in a process without an 'unhandledRejection' listener:
\* the rejected handler promise is awaited by nobody but the timer callback
\* of set-interval-async, and Node (>= 16, the default
\* --unhandled-rejections=throw) ends the process; no timer fires again.
rollover_exits(t) ==
    [u \in Timers |->
        IF u = t
        THEN [timers[u] EXCEPT !.status = "exited", !.pc = "idle", !.live = FALSE,
                               !.ops = @ \o <<"rollover_fail", "throw", "exit">>]
        ELSE IF timers[u].status = "active"
        THEN [timers[u] EXCEPT !.status = "exited"]
        ELSE timers[u]]

\* await this.chip.setCount(0) after a count > 900000 has settled
tick_rollover(t) ==
    /\ timers[t].pc = "rollover"
    /\ \E ok \in BOOLEAN :
          /\ Settles(timers[t].live, ok)
          /\ IF ok
             THEN /\ ChipEffect("rollover")
                  /\ data' = push(data, 0, now)
                  /\ timers' = tickEnd(t, <<"setCount", "push">>)
             ELSE /\ timers' \in {rollover_failed(t), rollover_exits(t)}
                  /\ UNCHANGED <<counter, mode, data>>
    /\ UNCHANGED <<config, now, wire, pulsesLeft, readInterval, callVars, aggVars>>

\* ---------------------------------------------------------------- environment
\* one second passes
clock ==
    /\ now < horizon
    /\ ~JobPending
    /\ now' = now + 1
    /\ UNCHANGED <<config, data, chipVars, pulsesLeft, readInterval, timers, callVars,
                   aggVars>>

\* the wind turns the cups: in counter mode the chip counts the pulses
pulse ==
    /\ pulsesLeft > 0
    /\ mode = "counter"
    /\ ~JobPending
    /\ \E d \in PulseSteps : counter' = (counter + d) % (CounterLimit + 1)
    /\ pulsesLeft' = pulsesLeft - 1
    /\ UNCHANGED <<config, now, data, wire, mode, readInterval, timers, callVars,
                   aggVars>>

\* ---------------------------------------------------------------- the chip's registers
\* reset() writes 0x04 to the control register
ControlDefault == 4

\* MODE_EVENT_COUNTER = 0x20, the function mode bits of the control register
ModeCounter == 32

\* A JavaScript Number is kept as an integer count of 1/Scale: value / 100
\* and value / 10000 of an integer value are exact in these units.
Scale == 10000

\* the Number of the integer n
num(n) == n * Scale

\* ToInt32 on a Number within the 32 bit range: the fraction is cut off
toInt32(x) == IF x >= 0 THEN x \div Scale ELSE -((-x) \div Scale)

\* x % m for an integer m > 0: the result has the sign of x
jsMod(x, m) == IF x >= 0 THEN x % (m * Scale) ELSE -((-x) % (m * Scale))

\* x / m for an integer m that divides Scale
jsDiv(x, m) == IF x >= 0 THEN x \div m ELSE -((-x) \div m)

\* n % m for integers n and m > 0: the result has the sign of n
remainder(n, m) == IF n >= 0 THEN n % m ELSE -((-n) % m)

\* the Number n / m of the integer n, for an integer m that divides Scale
quotient(n, m) == n * (Scale \div m)

\* the outcome of a function that returns a Number or throws
Returns(x) == [threw |-> FALSE, value |-> x]
Throws(error) == [threw |-> TRUE, value |-> error]

\* bcdToByte(value): value >> 4 and value & 0x0f work on ToInt32(value)
bcdToByte(value) ==
    LET high == toInt32(value) \div 16
        low == toInt32(value) % 16
    IN  IF high > 9 \/ low > 9 THEN Throws("InvalidByte")
        ELSE Returns(num(high * 10 + low))

\* byteToBCD(value) that returns the byte as it is, not BCD encoded (mutant)
byteToBCD_binary(value) ==
    IF value >= num(100) THEN Throws("InvalidBCD") ELSE Returns(value)

\* byteToBCD(value): ((value / 10) << 4) + (value % 10)
byteToBCD(value) ==
    IF value >= num(100) THEN Throws("InvalidBCD")
    ELSE Returns(num(toInt32(jsDiv(value, 10)) * 16) + jsMod(value, 10))

\* Buffer.from(bytes): every entry is cut to an integer and to 8 bits
toUint8(x) == toInt32(x) % 256

\* setCount accepts a negative value (mutant)
invalidCount_upperOnly(value) == value > CounterLimit

\* setCount: value < 0 || value > 999999
invalidCount(value) == value < 0 \/ value > CounterLimit

\* the three BCD conversions setCount makes for the counter register
counterBCD(value) ==
    <<byteToBCD(num(remainder(value, 100))),
      byteToBCD(jsMod(quotient(value, 100), 100)),
      byteToBCD(jsMod(quotient(value, 10000), 100))>>

\* the bus transactions of a setCount that passes its check: stop(), the
\* write of the counter register, start()
SetCountTransactions ==
    <<"readControl", "writeControl", "writeCounter", "readControl", "writeControl">>

\* stop(): control |= 0x80
stopBit(control) == IF (control \div 128) % 2 = 1 THEN control ELSE control + 128

\* start(): control &= 0x7f
startBit(control) == control % 128

\* the registers after the first `done` transactions of setCount(value)
busAfter(b, value, done) ==
    [control |-> IF done >= 5 THEN startBit(stopBit(b.control))
                 ELSE IF done >= 2 THEN stopBit(b.control)
                 ELSE b.control,
     count |-> IF done >= 3
               THEN [k \in 1..3 |-> toUint8(counterBCD(value)[k].value)]
               ELSE b.count,
     log |-> b.log \o SubSeq(SetCountTransactions, 1, done)]

\* PCF8583.setCount(value) on the registers b, of which the bus carries out
\* the first `done` transactions before one fails
setCount(b, value, done) ==
    IF invalidCount(value)
    THEN [bus |-> b, outcome |-> Throws("InvalidValue")]
    ELSE IF done < 2
    THEN [bus |-> busAfter(b, value, done), outcome |-> Throws("BusError")]
    ELSE IF \E k \in 1..3 : counterBCD(value)[k].threw
    THEN [bus |-> busAfter(b, value, 2), outcome |-> Throws("InvalidBCD")]
    ELSE IF done < 5
    THEN [bus |-> busAfter(b, value, done), outcome |-> Throws("BusError")]
    ELSE [bus |-> busAfter(b, value, 5), outcome |-> Returns(0)]

\* PCF8583.getCount() on the three bytes read from the counter register:
\* the count, an integer
getCount(read) ==
    LET digits == [k \in 1..3 |-> bcdToByte(num(read[k]))]
    IN  IF \E k \in 1..3 : digits[k].threw THEN Throws("InvalidByte")
        ELSE Returns(toInt32(digits[1].value) + toInt32(digits[2].value) * 100
                     + toInt32(digits[3].value) * 10000)

\* a caller of the driver calls setCount(value)
drv_setCount(value) ==
    /\ aggOut.fn = "none"
    /\ \E done \in 0..Len(SetCountTransactions) :
          /\ ~wire => done = 0
          /\ bus' = setCount(bus, value, done).bus
          /\ aggOut' = [fn |-> "setCount", arg |-> value, before |-> bus]
                       @@ setCount(bus, value, done).outcome
    /\ UNCHANGED <<config, now, data, chipVars, pulsesLeft, readInterval, timers,
                   callVars, aggIn, lastOp, returned, wind>>

\* a caller of the driver calls getCount()
drv_getCount ==
    /\ aggOut.fn \in {"none", "setCount"}
    /\ \E ok \in BOOLEAN :
          /\ ok => wire
          /\ bus' = IF wire THEN [bus EXCEPT !.log = Append(@, "readCounter")] ELSE bus
          /\ aggOut' = [fn |-> "getCount", arg |-> bus.count, before |-> aggOut]
                       @@ (IF ok THEN getCount(bus.count) ELSE Throws("BusError"))
    /\ UNCHANGED <<config, now, data, chipVars, pulsesLeft, readInterval, timers,
                   callVars, aggIn, lastOp, returned, wind>>

\* a caller converts the integer x to BCD and back
codec_roundTrip(x) ==
    /\ aggOut.fn = "none"
    /\ aggOut' = [fn |-> "byteToBCD", arg |-> x,
                  threw |-> byteToBCD(num(x)).threw,
                  value |-> byteToBCD(num(x)).value,
                  back |-> IF byteToBCD(num(x)).threw THEN Throws("InvalidBCD")
                           ELSE bcdToByte(byteToBCD(num(x)).value)]
    /\ UNCHANGED <<config, now, data, chipVars, pulsesLeft, readInterval, timers,
                   callVars, aggIn, lastOp, returned, bus, wind>>

\* a caller converts the byte b from BCD
codec_decode(b) ==
    /\ aggOut.fn = "none"
    /\ aggOut' = [fn |-> "bcdToByte", arg |-> b] @@ bcdToByte(num(b))
    /\ UNCHANGED <<config, now, data, chipVars, pulsesLeft, readInterval, timers,
                   callVars, aggIn, lastOp, returned, bus, wind>>

\* bytes a read of the counter register can deliver: valid BCD and not
RegisterBytes == {0, 153, 154, 160}

\* the values a caller passes to setCount
CountArgs == {-1, 0, 9, 12345, 900001, 999999, 1000000}

\* the integers a caller passes to byteToBCD
ByteArgs == 0..101

Bytes == 0..255

\* ---------------------------------------------------------------- specification
\* the connection, the periodic task and the callers of a new Anemometer
\* no pulse delivered yet
NoWind == [total |-> 0, sampled |-> 0, burst |-> 0, maxBurst |-> 0, lost |-> 0,
           ticks |-> 0, wrapped |-> FALSE]

Idle ==
    /\ wire = FALSE
    /\ counter = 0
    /\ mode = "clock"
    /\ readInterval = 0
    /\ timers = [t \in Timers |-> NoTimer]
    /\ calls = [c \in Calls |-> NoCall]
    /\ nextCall = 1
    /\ lastDone = Settled(NoCall)
    /\ aggOut = [fn |-> "none", pulses |-> 0, timeSpan |-> 0]
    /\ lastOp = [op |-> "none"]
    /\ returned = [array |-> <<>>, shared |-> FALSE, held |-> FALSE, touched |-> FALSE]
    /\ bus = [control |-> ControlDefault, count |-> <<0, 0, 0>>, log |-> <<>>]
    /\ wind = NoWind

\* the state after new Anemometer(calc, opts)
Constructed ==
    /\ now = 0
    /\ data = <<>>
    /\ Idle

\* The sampler: the caller opens the instance once, the periodic task runs,
\* the wind blows and the clock advances.
Init ==
    /\ retries \in 1..MaxRetries
    /\ readFailed \in BOOLEAN
    /\ maxElements \in 1..MaxElements
    /\ expirationTime \in 1..MaxExpiration
    /\ budget = 1
    /\ horizon = MaxNow
    /\ pulsesLeft = MaxPulses
    /\ aggIn = <<>>
    /\ Constructed

Next ==
    \/ open_call
    \/ \E c \in Calls : open_chipOpened(c)
    \/ \E c \in Calls : open_resetChip(c)
    \/ \E c \in Calls : open_setCount(c)
    \/ \E c \in Calls : open_start(c)
    \/ \E t \in Timers : tick_start(t)
    \/ \E t \in Timers : tick_getCount(t)
    \/ \E t \in Timers : tick_resetChip(t)
    \/ \E t \in Timers : tick_rollover(t)
    \/ clock
    \/ pulse

Spec == Init /\ [][Next]_vars

\* The lifecycle: the caller issues up to MaxCalls open()/close() calls in
\* any order and without waiting for one to settle before the next; no wind,
\* one read attempt per tick, all within one second.
InitLifecycle ==
    /\ retries = 1
    /\ readFailed = FALSE
    /\ maxElements = 1
    /\ expirationTime = 1
    /\ budget = MaxCalls
    /\ horizon = 0
    /\ pulsesLeft = 0
    /\ aggIn = <<>>
    /\ Constructed

NextLifecycle ==
    \/ open_call
    \/ \E c \in Calls : open_cleared(c)
    \/ \E c \in Calls : open_chipOpened(c)
    \/ \E c \in Calls : open_resetChip(c)
    \/ \E c \in Calls : open_setCount(c)
    \/ \E c \in Calls : open_start(c)
    \/ close_call
    \/ \E c \in Calls : close_cleared(c)
    \/ \E c \in Calls : close_chipClosed(c)
    \/ \E t \in Timers : tick_start(t)
    \/ \E t \in Timers : tick_getCount(t)
    \/ \E t \in Timers : tick_resetChip(t)

SpecLifecycle == InitLifecycle /\ [][NextLifecycle]_vars

\* ---------------------------------------------------------------- aggregation helpers
AggValues == {0, 3, 5, 9}

\* the timestamps of a sample list of length n: they never decrease
Timestamps(n) ==
    {ts \in [1..n -> 0..MaxTs] : \A k \in 1..(n - 1) : ts[k] <= ts[k + 1]}

\* the sample list with the given values and timestamps
SampleList(vals, ts) == [k \in 1..Len(vals) |-> DataRecord(vals[k], ts[k])]

Values(d) == [k \in 1..Len(d) |-> d[k].value]

\* getTotalPulses, the loop body, adding the previous value after a reset (mutant)
addPulses_previous(pulses, previousValue, value) ==
    IF value >= previousValue THEN pulses + (value - previousValue)
    ELSE pulses + previousValue

\* getTotalPulses, the loop body, a plain difference that knows no reset (mutant)
addPulses_noReset(pulses, previousValue, value) == pulses + (value - previousValue)

\* getTotalPulses, the loop body: pulses after the record with `value`
addPulses(pulses, previousValue, value) ==
    IF value >= previousValue THEN pulses + (value - previousValue)
    ELSE pulses + value

\* getTotalPulses, the for loop from record k on
RECURSIVE totalLoop(_, _, _, _)
totalLoop(d, k, pulses, previousValue) ==
    IF k > Len(d) THEN pulses
    ELSE totalLoop(d, k + 1, addPulses(pulses, previousValue, d[k].value), d[k].value)

\* getTotalPulses(data) without the empty check, counting the first value up
\* from zero (mutant)
getTotalPulses_fromZero(d) ==
    [pulses |-> totalLoop(d, 1, 0, 0),
     timeSpan |-> IF Len(d) = 0 THEN 0 ELSE d[Len(d)].timestamp - d[1].timestamp]

\* getTotalPulses(data)
getTotalPulses(d) ==
    IF Len(d) = 0 THEN [pulses |-> 0, timeSpan |-> 0]
    ELSE [pulses |-> totalLoop(d, 1, 0, d[1].value),
          timeSpan |-> d[Len(d)].timestamp - d[1].timestamp]

\* a caller evaluates getTotalPulses on its sample list
agg_getTotalPulses ==
    /\ aggOut.fn = "none"
    /\ aggOut' = [fn |-> "getTotalPulses"] @@ getTotalPulses(aggIn)
    /\ UNCHANGED <<config, now, data, chipVars, pulsesLeft, readInterval, timers,
                   callVars, aggIn, lastOp, returned, bus, wind>>

\* getMaxIncreaseRate, `rate > maxRate` taken as `rate >= maxRate` (mutant)
exceeds_orEqual(step, timeSpan, best) == step * best.den >= best.num * timeSpan

\* getMaxIncreaseRate comparing magnitudes, |rate| > maxRate (mutant)
exceeds_magnitude(step, timeSpan, best) ==
    (IF step < 0 THEN 0 - step ELSE step) * best.den > best.num * timeSpan

\* getMaxIncreaseRate: rate > maxRate, for rate = step / timeSpan with
\* timeSpan > 0 and maxRate = best.num / best.den
exceeds(step, timeSpan, best) == step * best.den > best.num * timeSpan

\* getMaxIncreaseRate, the for loop from the pair (d[i], d[i + 1]) on
RECURSIVE rateLoop(_, _, _)
rateLoop(d, i, best) ==
    IF i > Len(d) - 1 THEN best
    ELSE LET step == d[i + 1].value - d[i].value
             timeSpan == d[i + 1].timestamp - d[i].timestamp
         IN  IF timeSpan > 0 /\ exceeds(step, timeSpan, best)
             THEN rateLoop(d, i + 1, [num |-> step, den |-> timeSpan,
                                      step |-> step, timeSpan |-> timeSpan])
             ELSE rateLoop(d, i + 1, best)

\* getMaxIncreaseRate(data): step and timeSpan of the result
getMaxIncreaseRate(d) ==
    LET best == IF Len(d) < 2
                THEN [num |-> 0, den |-> 1, step |-> 0, timeSpan |-> 0]
                ELSE rateLoop(d, 1, [num |-> 0, den |-> 1, step |-> 0, timeSpan |-> 0])
    IN [step |-> best.step, timeSpan |-> best.timeSpan]

\* a caller evaluates getMaxIncreaseRate on its sample list
agg_getMaxIncreaseRate ==
    /\ aggOut.fn = "none"
    /\ aggOut' = [fn |-> "getMaxIncreaseRate"] @@ getMaxIncreaseRate(aggIn)
    /\ UNCHANGED <<config, now, data, chipVars, pulsesLeft, readInterval, timers,
                   callVars, aggIn, lastOp, returned, bus, wind>>

\* getPulsesFromSeries, `<` taken as `<=` (mutant)
drops_orEqual(following, value) == following <= value

\* getPulsesFromSeries: (data[i + 1]?.value || 0) < data[i].value
drops(following, value) == following < value

\* data[i + 1]?.value || 0: zero behind the last record
following(d, i) == IF i + 1 > Len(d) THEN 0 ELSE d[i + 1].value

\* getPulsesFromSeries, the for loop from record i on
RECURSIVE seriesLoop(_, _, _)
seriesLoop(d, i, count) ==
    IF i > Len(d) THEN count
    ELSE seriesLoop(d, i + 1,
                    IF drops(following(d, i), d[i].value) THEN count + d[i].value
                    ELSE count)

\* getPulsesFromSeries(series, time), on the records series.getData(time) returns
getPulsesFromSeries(d) ==
    IF Len(d) = 0 THEN [pulses |-> 0, duration |-> 0]
    ELSE [pulses |-> seriesLoop(d, 1, 0) - d[1].value,
          duration |-> d[Len(d)].timestamp - d[1].timestamp]

\* a caller evaluates getPulsesFromSeries on its sample list
agg_getPulsesFromSeries ==
    /\ aggOut.fn = "none"
    /\ aggOut' = [fn |-> "getPulsesFromSeries"] @@ getPulsesFromSeries(aggIn)
    /\ UNCHANGED <<config, now, data, chipVars, pulsesLeft, readInterval, timers,
                   callVars, aggIn, lastOp, returned, bus, wind>>

\* a sample list whose consecutive pairs have the rates 2/s and 5/s
PeakExample == <<DataRecord(0, 0), DataRecord(2, 1), DataRecord(7, 2)>>

InitAggregation ==
    /\ retries = 1
    /\ readFailed = FALSE
    /\ maxElements = 1
    /\ expirationTime = 1
    /\ budget = 0
    /\ horizon = 0
    /\ pulsesLeft = 0
    /\ Constructed
    /\ \/ \E n \in 0..MaxLen :
             \E vals \in [1..n -> AggValues] :
                \E ts \in Timestamps(n) : aggIn = SampleList(vals, ts)
       \/ aggIn = PeakExample

NextAggregation ==
    \/ agg_getTotalPulses
    \/ agg_getMaxIncreaseRate
    \/ agg_getPulsesFromSeries

SpecAggregation == InitAggregation /\ [][NextAggregation]_vars

\* ---------------------------------------------------------------- History.get
\* an optional field of the conditions that is not given
Absent == -1

\* the Date values of startTime and endTime, in milliseconds
Dates == {1000, 1500}

Orders == {"none", "asc", "ASC", "desc", "DESC"}

\* conditions.limit: 0 stands for no limit
Limits == {0, 1, 2}

\* GetDataConditions: a TimeCondition is absolute or relative, never both
Conditions ==
    {c \in [startTime : Dates \cup {Absent}, endTime : Dates \cup {Absent},
            recentSeconds : (0..MaxNow) \cup {Absent}, order : Orders,
            limit : Limits] :
        (c.startTime # Absent \/ c.endTime # Absent) => c.recentSeconds = Absent}

\* Math.floor(date.getTime() / 1000)
floorSeconds(ms) == ms \div 1000

\* 'startTime' in conditions || 'endTime' in conditions
isAbsolute(cond) == cond.startTime # Absent \/ cond.endTime # Absent

\* 'recentSeconds' in conditions && conditions.recentSeconds !== undefined
isRelative(cond) == cond.recentSeconds # Absent

\* record.timestamp >= startTime && record.timestamp <= endTime
inRange(cond, record) ==
    /\ cond.startTime # Absent => record.timestamp >= floorSeconds(cond.startTime)
    /\ cond.endTime # Absent => record.timestamp <= floorSeconds(cond.endTime)

\* the oldest timestamp of the relative filter, the bound left out (mutant)
recentTime_exclusive(ts, recentSeconds) == ts - recentSeconds + 1

\* const recentTime = this.getUnixTS() - conditions.recentSeconds
recentTime(ts, recentSeconds) == ts - recentSeconds

\* String.prototype.toLowerCase on the order
toLowerCase(order) ==
    CASE order = "ASC" -> "asc"
      [] order = "DESC" -> "desc"
      [] OTHER -> order

\* conditions.order && conditions.order.toLowerCase() === 'asc'
isAscending(cond) == cond.order # "none" /\ toLowerCase(cond.order) = "asc"

\* one step of a stable sort: record goes behind the records not younger than it
insertSorted(sorted, record) ==
    LET k == Cardinality({i \in DOMAIN sorted : sorted[i].timestamp <= record.timestamp})
    IN SubSeq(sorted, 1, k) \o <<record>> \o SubSeq(sorted, k + 1, Len(sorted))

\* result.sort((a, b) => a.timestamp - b.timestamp), which is stable
RECURSIVE sortByTimestamp(_)
sortByTimestamp(result) ==
    IF Len(result) = 0 THEN result
    ELSE insertSorted(sortByTimestamp(SubSeq(result, 1, Len(result) - 1)),
                      result[Len(result)])

\* result.slice(-limit): the last records instead of the first (mutant)
limitTo_last(result, limit) == SliceLast(result, limit)

\* result.slice(0, conditions.limit)
limitTo(result, limit) ==
    IF Len(result) <= limit THEN result ELSE SubSeq(result, 1, limit)

\* the records History.get(conditions) returns at time ts
get(d, ts, cond) ==
    LET ranged == IF isAbsolute(cond)
                  THEN SelectSeq(d, LAMBDA record : inRange(cond, record))
                  ELSE d
        recent == IF isRelative(cond)
                  THEN SelectSeq(ranged, LAMBDA record :
                            record.timestamp >= recentTime(ts, cond.recentSeconds))
                  ELSE ranged
        ordered == IF isAscending(cond) THEN sortByTimestamp(recent) ELSE recent
    IN  IF cond.limit > 0 THEN limitTo(ordered, cond.limit) ELSE ordered

\* `let result = this.data` without the slice: the same array object (mutant)
copyOf_same(d) == [array |-> d, shared |-> TRUE]

\* let result = this.data.slice(0): a new array with the same records
copyOf(d) == [array |-> d, shared |-> FALSE]

\* filter and slice return new arrays, sort works in place: is the array
\* History.get returns the object this.data?
getShares(cond) ==
    copyOf(data).shared /\ ~isAbsolute(cond) /\ ~isRelative(cond) /\ cond.limit <= 0

\* History.get that keeps what it selected as the window (mutant)
dataAfterGet_consumed(d, ts, cond) == get(d, ts, cond)

\* this.data after History.get(conditions): get sorts in place, which
\* reaches this.data only when it works on the array object itself
dataAfterGet(d, ts, cond) ==
    IF getShares(cond) /\ isAscending(cond) THEN sortByTimestamp(d) ELSE d

\* ---------------------------------------------------------------- the History object
\* the History treats the values as opaque: one reading stands for all
HistValues == {5}

\* what a caller appends to an array it got
CallerRecord == DataRecord(7, 0)

Reverse(s) == [k \in 1..Len(s) |-> s[Len(s) + 1 - k]]

\* a tick or open() calls history.push(value)
hist_push(v) ==
    /\ maxElements = 0 => Len(data) < MaxElements
    /\ data' = push(data, v, now)
    /\ returned' = IF returned.shared THEN [returned EXCEPT !.array = data'] ELSE returned
    /\ lastOp' = [op |-> "push"]
    /\ UNCHANGED <<config, now, chipVars, pulsesLeft, readInterval, timers, callVars,
                   aggIn, aggOut, bus, wind>>

\* a tick calls history.clean(): this.data becomes a new array
hist_clean ==
    /\ data' = clean(data, now)
    /\ returned' = [returned EXCEPT !.shared = FALSE]
    /\ lastOp' = [op |-> "clean", at |-> now,
                  removed |-> Len(data) - Len(clean(data, now)),
                  again |-> lastOp.op = "clean" /\ lastOp.at = now]
    /\ UNCHANGED <<config, now, chipVars, pulsesLeft, readInterval, timers, callVars,
                   aggIn, aggOut, bus, wind>>

\* a caller calls getHistoryData(conditions), which is history.get(conditions)
hist_get(cond) ==
    /\ ~returned.held
    /\ returned' = [array |-> get(copyOf(data).array, now, cond),
                    shared |-> getShares(cond), held |-> TRUE, touched |-> FALSE]
    /\ data' = dataAfterGet(data, now, cond)
    /\ lastOp' = [op |-> "get", at |-> now, conditions |-> cond]
    /\ UNCHANGED <<config, now, chipVars, pulsesLeft, readInterval, timers, callVars,
                   aggIn, aggOut, bus, wind>>

\* the caller adds to, removes from or reorders the array it got
caller_mutate(kind) ==
    /\ returned.held /\ ~returned.touched
    /\ kind = "pop" => Len(returned.array) > 0
    /\ LET mutated == CASE kind = "push" -> Append(returned.array, CallerRecord)
                        [] kind = "pop" -> SubSeq(returned.array, 1, Len(returned.array) - 1)
                        [] kind = "reverse" -> Reverse(returned.array)
       IN /\ returned' = [returned EXCEPT !.array = mutated, !.touched = TRUE]
          /\ data' = IF returned.shared THEN mutated ELSE data
    /\ lastOp' = [op |-> "caller", kind |-> kind]
    /\ UNCHANGED <<config, now, chipVars, pulsesLeft, readInterval, timers, callVars,
                   aggIn, aggOut, bus, wind>>

\* The History object on its own: pushes and cleans as the periodic task
\* makes them, the clock, and a caller that reads it once.
InitHistory ==
    /\ retries = 1
    /\ readFailed = FALSE
    /\ maxElements \in 0..MaxElements
    /\ expirationTime \in 1..MaxExpiration
    /\ budget = 0
    /\ horizon = MaxNow
    /\ pulsesLeft = 0
    /\ aggIn = <<>>
    /\ Constructed

NextHistory ==
    \/ \E v \in HistValues : hist_push(v)
    \/ hist_clean
    \/ \E cond \in Conditions : hist_get(cond)
    \/ \E kind \in {"push", "pop", "reverse"} : caller_mutate(kind)
    \/ clock

SpecHistory == InitHistory /\ [][NextHistory]_vars

\* ---------------------------------------------------------------- the queries of the facade
MaxWindow == 2         \* longest window a query of the facade finds

\* new History(): expirationTime = 600
DefaultExpiration == 600

\* the injected calculation function: the facade returns what it returns
calc(pulses, time) == [pulses |-> pulses, time |-> time]

\* getData without the lower bound of the range check (mutant)
outOfRange_upperOnly(time) == time > expirationTime

\* getData: time <= 0 || time > this.history.expirationTime
outOfRange(time) == time <= 0 \/ time > expirationTime

\* the conditions { recentSeconds: time }
Recent(time) ==
    [startTime |-> Absent, endTime |-> Absent, recentSeconds |-> time,
     order |-> "none", limit |-> 0]

\* TimeCondition: the conditions of getAverageWindSpeed and getPeakWindGust
TimeConditions == {c \in Conditions : c.order = "none" /\ c.limit = 0}

\* getTotalPulses and calc with the two arguments the wrong way round (mutant)
average_swapped(window) ==
    LET total == getTotalPulses(window)
    IN [calcCalls |-> <<<<total.timeSpan, total.pulses>>>>,
        result |-> calc(total.timeSpan, total.pulses)]

\* const { pulses, timeSpan } = getTotalPulses(data); return this.calc(pulses, timeSpan)
average(window) ==
    LET total == getTotalPulses(window)
    IN [calcCalls |-> <<<<total.pulses, total.timeSpan>>>>,
        result |-> calc(total.pulses, total.timeSpan)]

\* const { step, timeSpan } = getMaxIncreaseRate(data); return this.calc(step, timeSpan)
peak(window) ==
    LET best == getMaxIncreaseRate(window)
    IN [calcCalls |-> <<<<best.step, best.timeSpan>>>>,
        result |-> calc(best.step, best.timeSpan)]

\* the query threw before it read the window
Thrown(fn, arg) ==
    [fn |-> fn, arg |-> arg, threw |-> TRUE, reads |-> 0, window |-> <<>>,
     calcCalls |-> <<>>, result |-> "RangeError"]

\* the query read the window once and returned
Answered(fn, arg, window, answer) ==
    [fn |-> fn, arg |-> arg, threw |-> FALSE, reads |-> 1, window |-> window] @@ answer

\* a caller calls getData(time)
getData(time) ==
    /\ aggOut.fn = "none"
    /\ aggOut' = IF outOfRange(time)
                 THEN Thrown("getData", time)
                 ELSE Answered("getData", time, get(data, now, Recent(time)),
                               average(get(data, now, Recent(time))))
    /\ data' = IF outOfRange(time) THEN data ELSE dataAfterGet(data, now, Recent(time))
    /\ UNCHANGED <<config, now, chipVars, pulsesLeft, readInterval, timers,
                   callVars, aggIn, lastOp, returned, bus, wind>>

\* a caller calls getAverageWindSpeed(conditions)
getAverageWindSpeed(cond) ==
    /\ aggOut.fn = "none"
    /\ aggOut' = Answered("getAverageWindSpeed", cond, get(data, now, cond),
                          average(get(data, now, cond)))
    /\ data' = dataAfterGet(data, now, cond)
    /\ UNCHANGED <<config, now, chipVars, pulsesLeft, readInterval, timers,
                   callVars, aggIn, lastOp, returned, bus, wind>>

\* a caller calls getPeakWindGust(conditions)
getPeakWindGust(cond) ==
    /\ aggOut.fn = "none"
    /\ aggOut' = Answered("getPeakWindGust", cond, get(data, now, cond),
                          peak(get(data, now, cond)))
    /\ data' = dataAfterGet(data, now, cond)
    /\ UNCHANGED <<config, now, chipVars, pulsesLeft, readInterval, timers,
                   callVars, aggIn, lastOp, returned, bus, wind>>

\* a caller calls getHistoryData(conditions): the query returns the records
getHistoryData(cond) ==
    /\ aggOut.fn = "none"
    /\ aggOut' = Answered("getHistoryData", cond, get(data, now, cond),
                          [calcCalls |-> <<>>, result |-> get(data, now, cond)])
    /\ data' = dataAfterGet(data, now, cond)
    /\ UNCHANGED <<config, now, chipVars, pulsesLeft, readInterval, timers,
                   callVars, aggIn, lastOp, returned, bus, wind>>

\* the window of the end-to-end example: 120 pulses in 60 seconds
AverageExample == <<DataRecord(0, 0), DataRecord(120, 60)>>

\* the arguments a caller passes to getData
TimeArgs == (-1..(MaxExpiration + 1)) \cup {60}

\* The queries: a caller asks one question of an instance whose window holds
\* up to MaxWindow samples taken up to now.
InitQuery ==
    /\ retries = 1
    /\ readFailed = FALSE
    /\ maxElements = 0
    /\ budget = 0
    /\ horizon = 0
    /\ pulsesLeft = 0
    /\ aggIn = <<>>
    /\ Idle
    /\ \/ /\ expirationTime \in 1..MaxExpiration
          /\ now = MaxTs
          /\ \E n \in 0..MaxWindow :
                \E vals \in [1..n -> AggValues] :
                   \E ts \in Timestamps(n) : data = SampleList(vals, ts)
       \/ /\ expirationTime = DefaultExpiration
          /\ now = 60
          /\ data = AverageExample

NextQuery ==
    \/ \E time \in TimeArgs : getData(time)
    \/ \E cond \in TimeConditions : getAverageWindSpeed(cond)
    \/ \E cond \in TimeConditions : getPeakWindGust(cond)
    \/ \E cond \in Conditions : getHistoryData(cond)

SpecQuery == InitQuery /\ [][NextQuery]_vars

\* ---------------------------------------------------------------- the driver
\* The driver on its own: a caller writes and reads the counter of a chip
\* whose connection is open or closed, and converts bytes to and from BCD.
InitDriver ==
    /\ retries = 1
    /\ readFailed = FALSE
    /\ maxElements = 1
    /\ expirationTime = 1
    /\ budget = 0
    /\ horizon = 0
    /\ pulsesLeft = 0
    /\ now = 0
    /\ data = <<>>
    /\ aggIn = <<>>
    /\ wire \in BOOLEAN
    /\ counter = 0
    /\ mode = "counter"
    /\ readInterval = 0
    /\ timers = [t \in Timers |-> NoTimer]
    /\ calls = [c \in Calls |-> NoCall]
    /\ nextCall = 1
    /\ lastDone = Settled(NoCall)
    /\ aggOut = [fn |-> "none", pulses |-> 0, timeSpan |-> 0]
    /\ lastOp = [op |-> "none"]
    /\ returned = [array |-> <<>>, shared |-> FALSE, held |-> FALSE, touched |-> FALSE]
    /\ wind = NoWind
    /\ \E control \in {ControlDefault, ControlDefault + ModeCounter} :
          \E count \in [1..3 -> RegisterBytes] :
             bus = [control |-> control, count |-> count, log |-> <<>>]

NextDriver ==
    \/ \E value \in CountArgs : drv_setCount(value)
    \/ drv_getCount
    \/ \E x \in ByteArgs : codec_roundTrip(x)
    \/ \E b \in Bytes : codec_decode(b)

SpecDriver == InitDriver /\ [][NextDriver]_vars

\* ---------------------------------------------------------------------
\* Properties
\* ---------------------------------------------------------------------

\* number of entries of a log equal to entry
Count(log, entry) == Cardinality({k \in DOMAIN log : log[k] = entry})

\* log ends with the entries of tail
EndsWith(log, tail) ==
    /\ Len(log) >= Len(tail)
    /\ SubSeq(log, Len(log) - Len(tail) + 1, Len(log)) = tail


\* C1: with maxElements = N > 0 the History Window never retains more than
\* N samples, whichever of open(), a normal tick, the rollover path or the
\* self-heal path pushed last.
C1_WindowBounded == maxElements > 0 => Len(data) <= maxElements

\* C1 witness: a tick that read a value above the threshold has pushed the
\* reading and the rollover zero into a window that is full.
C1_Witness ==
    /\ maxElements > 0
    /\ Len(data) = maxElements
    /\ \E t \in Timers :
          timers[t].ops = <<"read_ok", "clean", "push", "setCount", "push">>

\* pulses of one consecutive pair as the source counts them
PairPulses(prev, next) == IF next < prev THEN next ELSE next - prev

\* pulses of one consecutive pair as the specification words them
PairPulsesClaimed(prev, next) == IF next < prev THEN prev ELSE next - prev

RECURSIVE PairSum(_, _, _)
\* sum of Pair(d[k].value, d[k+1].value) over the first n pairs of d
PairSum(Pair(_, _), d, n) ==
    IF n = 0 THEN 0
    ELSE PairSum(Pair, d, n - 1) + Pair(d[n].value, d[n + 1].value)

\* first to last timestamp of d
Duration(d) == IF Len(d) = 0 THEN 0 ELSE d[Len(d)].timestamp - d[1].timestamp

\* C2 (as the code behaves): getTotalPulses walks consecutive pairs and, when
\* next.value < prev.value, adds next.value to the total; values [0, 5, 3, 9]
\* give pulses = 5 + 3 + 6 = 14, and the duration is last minus first timestamp.
C2_AddsNextValue ==
    aggOut.fn = "getTotalPulses" =>
        /\ aggOut.pulses = PairSum(PairPulses, aggIn, IF Len(aggIn) = 0 THEN 0 ELSE Len(aggIn) - 1)
        /\ aggOut.timeSpan = Duration(aggIn)
        /\ Values(aggIn) = <<0, 5, 3, 9>> => aggOut.pulses = 14

\* C2 witness: getTotalPulses has run on the values [0, 5, 3, 9] taken at
\* increasing times.
C2_Witness ==
    /\ aggOut.fn = "getTotalPulses"
    /\ Values(aggIn) = <<0, 5, 3, 9>>
    /\ aggIn[1].timestamp < aggIn[4].timestamp
    /\ aggOut.pulses = 14
    /\ aggOut.timeSpan = aggIn[4].timestamp - aggIn[1].timestamp

\* C2 as stated: on a device reset getTotalPulses adds prev.value, so that
\* values [0, 5, 3, 9] give pulses = 5 + 5 + 6 = 16 and duration t3 - t0.
C2_AddsPreviousValue ==
    aggOut.fn = "getTotalPulses" =>
        /\ aggOut.pulses = PairSum(PairPulsesClaimed, aggIn, IF Len(aggIn) = 0 THEN 0 ELSE Len(aggIn) - 1)
        /\ aggOut.timeSpan = Duration(aggIn)
        /\ Values(aggIn) = <<0, 5, 3, 9>> => aggOut.pulses = 16

\* log entries of the failed reads of a tick that used up its attempts
FailedReads == retries * (IF readFailed THEN 2 ELSE 1)

\* every attempt of the tick of timer t has failed
AllReadsFailed(t) == Count(timers[t].ops, "read_fail") = retries

\* what the tick of timer t logged after its failed reads
HealLog(t) == SubSeq(timers[t].ops, FailedReads + 1, Len(timers[t].ops))

HealPcs == {"reset", "setMode", "setCount"}

\* C3: within one tick getCount() is attempted at most `retries` times and
\* no attempt follows a success; each failed attempt is followed by exactly
\* one call of the failure callback (when one is configured), and a callback
\* that throws is followed by the next attempt or, after the last attempt,
\* by the reset: the tick is neither aborted nor are attempts skipped.
C3_RetryLoop ==
    \A t \in Timers :
        LET log == timers[t].ops
            fails == Count(log, "read_fail")
            oks == Count(log, "read_ok")
            attempting == IF timers[t].pc = "getCount" THEN 1 ELSE 0
            healing == \/ timers[t].pc \in HealPcs
                       \/ Count(log, "reset") > 0
                       \/ Count(log, "heal_fail") > 0
        IN  /\ fails + oks + attempting <= retries
            /\ oks <= 1
            /\ oks = 1 => attempting = 0
            /\ \A k \in DOMAIN log : log[k] = "read_ok" =>
                  \A j \in DOMAIN log : j > k => log[j] # "read_fail"
            /\ Count(log, "cb_ok") + Count(log, "cb_throw") = IF readFailed THEN fails ELSE 0
            /\ readFailed => \A k \in DOMAIN log : log[k] = "read_fail" =>
                  k < Len(log) /\ log[k + 1] \in {"cb_ok", "cb_throw"}
            /\ \A k \in DOMAIN log : log[k] = "cb_throw" =>
                  IF k < Len(log)
                  THEN log[k + 1] \in {"read_ok", "read_fail", "reset", "heal_fail"}
                  ELSE timers[t].pc \in {"getCount", "reset"}
            /\ healing => fails = retries /\ oks = 0

\* C3 witness: a tick whose first read failed, whose failure callback threw,
\* and whose second read succeeded and was stored.
C3_Witness ==
    /\ retries = 2
    /\ readFailed
    /\ \E t \in Timers :
          timers[t].ops = <<"read_fail", "cb_throw", "read_ok", "clean", "push">>

\* the reset sequence of the self-heal as far as the tick of t has come
C4_HealOrder ==
    \A t \in Timers : AllReadsFailed(t) =>
        CASE timers[t].pc = "reset" -> HealLog(t) = <<>>
          [] timers[t].pc = "setMode" -> HealLog(t) = <<"reset">>
          [] timers[t].pc = "setCount" -> HealLog(t) = <<"reset", "setMode">>
          [] timers[t].pc = "idle" ->
                HealLog(t) \in {<<"reset", "setMode", "setCount", "push">>,
                                <<"heal_fail">>,
                                <<"reset", "heal_fail">>,
                                <<"reset", "setMode", "heal_fail">>}
          [] OTHER -> FALSE

\* what a step of a self-healing tick does to the History Window
C4_HealStep ==
    \A t \in Timers : timers[t].pc \in HealPcs =>
        IF timers'[t].pc = "idle" /\ EndsWith(timers'[t].ops, <<"setCount", "push">>)
        THEN /\ timers[t].pc = "setCount"
             /\ counter' = 0
             /\ mode' = "counter"
             /\ Len(data') >= 1
             /\ data'[Len(data')] = DataRecord(0, now)
             /\ SubSeq(data', 1, Len(data') - 1) \in {data, Shift(data)}
        ELSE data' = data

\* C4 (as the code behaves): when all `retries` read attempts of a tick
\* fail, the tick issues reset, setMode(counter), setCount(0) in this order
\* and stops at the first of them that fails; it appends one zero sample
\* only when all three succeeded, and otherwise leaves the History Window
\* as it was. No failed or partial reading is appended in that tick.
C4_ZeroSampleIfResetSucceeds == [] C4_HealOrder /\ [][C4_HealStep]_vars

\* C4 witness: a tick whose reads all failed has reset the device and
\* appended the zero sample.
C4_Witness ==
    \E t \in Timers :
        /\ AllReadsFailed(t)
        /\ timers[t].pc = "idle"
        /\ HealLog(t) = <<"reset", "setMode", "setCount", "push">>
        /\ counter = 0
        /\ mode = "counter"
        /\ Len(data) >= 1
        /\ data[Len(data)] = DataRecord(0, now)

\* C4 as stated: when all `retries` read attempts of a tick fail, the tick
\* resets the device with reset, setMode(counter), setCount(0) and appends
\* one fresh zero sample.
C4_AlwaysZeroSample ==
    \A t \in Timers : AllReadsFailed(t) /\ timers[t].pc = "idle" =>
        HealLog(t) = <<"reset", "setMode", "setCount", "push">>

\* C5 as stated: no device I/O failure during a tick is thrown out of the
\* periodic task; every tick completes without raising.
C5_TickNeverThrows ==
    \A t \in Timers : Count(timers[t].ops, "throw") = 0

\* C6 as stated: the ticks of one instance execute one after the other, and
\* at most one bus transaction of the instance is in flight at any time.
C6_OneTransactionInFlight ==
    /\ Cardinality({t \in Timers : TickInFlight(t)}) <= 1
    /\ InFlight <= 1

\* C7 as stated: close() called while Running lets a tick in flight finish
\* before it closes the connection, and once it has resolved no periodic
\* task is scheduled and no tick executes.
C7_CloseStopsTicks ==
    /\ \A c \in Calls :
          calls[c].op = "close" /\ calls[c].from = "Running" /\ calls[c].pc = "chipClose" =>
              \A t \in Timers : ~TickInFlight(t)
    /\ (NoPending /\ lastDone.op = "close" /\ lastDone.from = "Running"
            /\ lastDone.result = "ok") =>
          \A t \in Timers : timers[t].status # "active" /\ ~TickInFlight(t)

\* the steps of open(), in the order of the source
OpenSequence == <<"open", "reset", "setMode", "setCount", "push", "start">>

\* an open() called from Closed has taken its steps in the order of OpenSequence
C8_OpenOrder ==
    /\ \A c \in Calls : calls[c].op = "open" /\ calls[c].from = "Closed" =>
          CASE calls[c].pc = "chipOpen" -> calls[c].ops = <<>>
            [] calls[c].pc = "reset" -> calls[c].ops = SubSeq(OpenSequence, 1, 1)
            [] calls[c].pc = "setMode" -> calls[c].ops = SubSeq(OpenSequence, 1, 2)
            [] calls[c].pc = "setCount" -> calls[c].ops = SubSeq(OpenSequence, 1, 3)
            [] calls[c].pc = "start" -> calls[c].ops = SubSeq(OpenSequence, 1, 5)
            [] OTHER -> FALSE
    /\ (lastDone.op = "open" /\ lastDone.from = "Closed" /\ lastDone.result = "ok") =>
          lastDone.ops = OpenSequence

\* the zero sample is pushed when setCount(0) has succeeded, and the periodic
\* task open() starts is a fresh one, started in the step that resolves open()
C8_OpenStep ==
    \A c \in Calls : calls[c].op = "open" /\ calls[c].from = "Closed" =>
        /\ (calls[c].pc = "setCount" /\ calls'[c].pc = "start") =>
              /\ Len(data') >= 1
              /\ data'[Len(data')] = DataRecord(0, now)
        /\ (calls[c].pc = "start" /\ calls'[c].pc # "start") =>
              /\ isReady'
              /\ timers[readInterval'].status = "unused"
              /\ timers'[readInterval'] = [NoTimer EXCEPT !.status = "active"]
              /\ lastDone' = [op |-> "open", from |-> "Closed", result |-> "ok",
                              ops |-> OpenSequence]

\* C8: open() called from Closed opens the device, then calls reset(),
\* setMode(counter), setCount(0), pushes a zero sample and only then starts
\* the periodic task, which has run no tick before the zero sample was
\* pushed; when open() resolves, isReady is true.
C8_OpenInitialises == [] C8_OpenOrder /\ [][C8_OpenStep]_vars

\* C8 witness: an open() called from Closed has resolved, the window holds
\* the zero sample and the task is scheduled.
C8_Witness ==
    /\ lastDone = [op |-> "open", from |-> "Closed", result |-> "ok", ops |-> OpenSequence]
    /\ isReady
    /\ timers[readInterval].status = "active"
    /\ data = <<DataRecord(0, 0)>>

\* C9: open() called while the instance is Running rejects with the error of
\* the device that the connection is already open, and close() called
\* while it is Closed rejects with the error that it is already closed.
C9_InvalidTransitionRejected ==
    /\ (lastDone.op = "open" /\ lastDone.from = "Running") => lastDone.result = "AlreadyOpen"
    /\ (lastDone.op = "close" /\ lastDone.from = "Closed") => lastDone.result = "AlreadyClosed"
    /\ \A c \in Calls :
          /\ (calls[c].op = "open" /\ calls[c].from = "Running") => calls[c].pc = "clear"
          /\ ~(calls[c].op = "close" /\ calls[c].from = "Closed")

\* C9 witness: an open() called while Running has been rejected.
C9_Witness ==
    /\ lastDone.op = "open"
    /\ lastDone.from = "Running"
    /\ lastDone.result = "AlreadyOpen"
    /\ lastDone.ops = <<>>

\* C10 as stated: isReady is true exactly when the periodic task is running:
\* while it is true the task it refers to is scheduled or is being cancelled
\* by a call that waits for its tick, and while it is false no periodic task
\* is scheduled.
C10_ReadyIffTaskRunning ==
    /\ isReady =>
          \/ timers[readInterval].status = "active"
          \/ \E c \in Calls : calls[c].pc = "clear" /\ calls[c].tmr = readInterval
    /\ ~isReady => \A t \in Timers : timers[t].status # "active"

\* the k-th smallest index of a set of indices
Kth(indices, k) == CHOOSE i \in indices : Cardinality({j \in indices : j < i}) = k - 1

\* the records of d at the given indices, in the order of d
Pick(d, indices) == [k \in 1..Cardinality(indices) |-> d[Kth(indices, k)]]

\* this step is a call of History.clean()
CleanStep == lastOp'.op = "clean" /\ lastOp'.at = now /\ now' = now

\* what a call of clean() leaves of the window
C13_CleanStep ==
    CleanStep =>
        LET newest == {i \in DOMAIN data : maxElements = 0 \/ i > Len(data) - maxElements}
            valid == {i \in newest : data[i].timestamp >= now - expirationTime + 1}
        IN  /\ \A k \in DOMAIN data' : data'[k].timestamp >= now - expirationTime + 1
            /\ data' = Pick(data, valid)

\* C13: for every expirationTime E > 0, immediately after clean() at time
\* now no retained sample has a timestamp below now - E + 1, and every sample
\* with a timestamp of at least now - E + 1 that was among the newest
\* maxElements samples is still retained, in its place.
C13_CleanKeepsValid == [][C13_CleanStep]_vars

\* C13 witness: clean() has removed expired samples and kept valid ones.
C13_Witness ==
    /\ lastOp.op = "clean"
    /\ lastOp.at = now
    /\ lastOp.removed > 0
    /\ Len(data) > 0
    /\ \A k \in DOMAIN data : data[k].timestamp >= now - expirationTime + 1

\* a second clean() at the same clock value with no operation in between
C14_SecondCleanStep ==
    (CleanStep /\ lastOp.op = "clean" /\ lastOp.at = now) => data' = data

\* C14: clean() is idempotent: a second clean() at the same clock value with
\* no push in between leaves the window as the first call left it.
C14_CleanIdempotent == [][C14_SecondCleanStep]_vars

\* C14 witness: clean() has run twice in a row on a window that the first
\* call left non-empty.
C14_Witness ==
    /\ lastOp.op = "clean"
    /\ lastOp.again
    /\ lastOp.at = now
    /\ Len(data) > 0

\* a step of the caller leaves the window alone, a step of the History
\* leaves the returned array alone
C15_CopyStep ==
    /\ lastOp'.op = "caller" => data' = data
    /\ (returned.held /\ lastOp'.op \in {"push", "clean"}) => returned'.array = returned.array
    /\ lastOp'.op = "get" => data' = data

\* C15: History.get returns a copy: adding, removing or reordering entries
\* of the returned array does not change the window, and a push, eviction or
\* clean after get() returned does not change the returned array.
C15_GetReturnsCopy == [][C15_CopyStep]_vars

\* C15 witness: the caller has changed the array it got, the History has
\* pushed after that, and the two differ.
C15_Witness ==
    /\ returned.held
    /\ returned.touched
    /\ lastOp.op = "push"
    /\ Len(data) > 0
    /\ returned.array # data

\* History.get has just returned and neither the window nor the clock has
\* moved since
JustGot == lastOp.op = "get" /\ lastOp.at = now

\* the time condition of History.get as the source evaluates it: Dates are
\* cut to whole seconds, so a record of second s passes a startTime that
\* lies before the end of s and an endTime that does not lie before s
Matches(cond, record) ==
    /\ cond.startTime # Absent => (record.timestamp + 1) * 1000 > cond.startTime
    /\ cond.endTime # Absent => record.timestamp * 1000 <= cond.endTime
    /\ cond.recentSeconds # Absent => record.timestamp >= now - cond.recentSeconds

\* the time condition as the specification words it
MatchesClaimed(cond, record) ==
    /\ cond.startTime # Absent => record.timestamp * 1000 >= cond.startTime
    /\ cond.endTime # Absent => record.timestamp * 1000 <= cond.endTime
    /\ cond.recentSeconds # Absent => record.timestamp >= now - cond.recentSeconds

Unordered(cond) == get(data, now, [cond EXCEPT !.order = "none", !.limit = 0])

\* C17 as stated: with order 'desc'/'DESC' get returns the matching samples
\* in the reverse of insertion order, with 'asc'/'ASC' or no order in
\* ascending timestamp order.
C17_DescendingIsReversed ==
    (JustGot /\ lastOp.conditions.limit = 0) =>
        IF lastOp.conditions.order \in {"desc", "DESC"}
        THEN returned.array = Reverse(Unordered(lastOp.conditions))
        ELSE /\ returned.array = Unordered(lastOp.conditions)
             /\ \A k \in 1..(Len(returned.array) - 1) :
                   returned.array[k].timestamp <= returned.array[k + 1].timestamp

\* what get returns for the conditions without limit
Unlimited(cond) == get(data, now, [cond EXCEPT !.limit = 0])

\* C18: get(conditions) with limit = L > 0 returns at most L samples, the
\* first L of the filtered and ordered result; without a limit it returns
\* every sample that matches.
C18_LimitTakesFirst ==
    JustGot =>
        LET L == lastOp.conditions.limit
            full == Unlimited(lastOp.conditions)
        IN  IF L > 0
            THEN /\ Len(returned.array) <= L
                 /\ Len(returned.array) = IF Len(full) < L THEN Len(full) ELSE L
                 /\ \A k \in DOMAIN returned.array : returned.array[k] = full[k]
            ELSE Len(returned.array) =
                    Cardinality({i \in DOMAIN data : Matches(lastOp.conditions, data[i])})

\* C18 witness: get() with limit 1 has returned the first of at least two
\* matching samples with different timestamps.
C18_Witness ==
    /\ JustGot
    /\ lastOp.conditions.limit = 1
    /\ Len(returned.array) = 1
    /\ Len(Unlimited(lastOp.conditions)) >= 2
    /\ Unlimited(lastOp.conditions)[1] # Unlimited(lastOp.conditions)[2]
    /\ returned.array[1] = Unlimited(lastOp.conditions)[1]

\* step and time delta of the i-th consecutive pair of d
PairStep(d, i) == d[i + 1].value - d[i].value
PairSpan(d, i) == d[i + 1].timestamp - d[i].timestamp

\* pair i has a higher rate than pair j, both with a positive time delta
HigherRate(d, i, j) == PairStep(d, i) * PairSpan(d, j) > PairStep(d, j) * PairSpan(d, i)

\* the first pair, in scan order, with the maximum rate among the candidates
Winner(d, candidates) ==
    CHOOSE w \in candidates :
        \A j \in candidates : ~HigherRate(d, j, w) /\ (j < w => HigherRate(d, w, j))

C11_GetDataRange ==
    aggOut.fn = "getData" =>
        /\ aggOut.threw <=> (aggOut.arg <= 0 \/ aggOut.arg > expirationTime)
        /\ aggOut.threw =>
              /\ aggOut.result = "RangeError"
              /\ aggOut.reads = 0
              /\ aggOut.calcCalls = <<>>
        /\ ~aggOut.threw => aggOut.reads = 1 /\ Len(aggOut.calcCalls) = 1

\* C11 witness: getData has been called with a time beyond expirationTime
\* on a window that holds samples, and has thrown.
C11_Witness ==
    /\ aggOut.fn = "getData"
    /\ aggOut.arg > expirationTime
    /\ aggOut.threw
    /\ aggOut.reads = 0
    /\ Len(data) > 0

\* the query asked for a relative window wider than expirationTime
WiderThanRetention ==
    \/ aggOut.fn = "getData" /\ aggOut.arg > expirationTime
    \/ /\ aggOut.fn \in {"getAverageWindSpeed", "getPeakWindGust"}
       /\ aggOut.arg.recentSeconds # Absent
       /\ aggOut.arg.recentSeconds > expirationTime

\* C12 as stated: every aggregate query over a relative window wider than
\* expirationTime fails with a range error.
C12_WideWindowFails == WiderThanRetention => aggOut.threw

\* the values of the window never decrease
NoReset(window) == \A k \in 1..(Len(window) - 1) : window[k].value <= window[k + 1].value

\* C20: for a window without a reset, getData and getAverageWindSpeed call
\* the calculation function once, with pulses = last.value - first.value
\* and duration = last.timestamp - first.timestamp, and return its result
\* unchanged; the window [(0, 0s), (120, 60s)] gives pulses 120, duration 60.
C20_NoResetIsLastMinusFirst ==
    (/\ aggOut.fn \in {"getData", "getAverageWindSpeed"}
     /\ ~aggOut.threw
     /\ Len(aggOut.window) > 0
     /\ NoReset(aggOut.window)) =>
        LET first == aggOut.window[1]
            last == aggOut.window[Len(aggOut.window)]
        IN  /\ aggOut.calcCalls = <<<<last.value - first.value, last.timestamp - first.timestamp>>>>
            /\ aggOut.result = calc(last.value - first.value, last.timestamp - first.timestamp)
            /\ aggOut.window = AverageExample => aggOut.calcCalls = <<<<120, 60>>>>

\* C20 witness: getData(60) on the window [(0, 0s), (120, 60s)] has returned
\* what the calculation function makes of 120 pulses in 60 seconds.
C20_Witness ==
    /\ aggOut.fn = "getData"
    /\ aggOut.arg = 60
    /\ aggOut.window = AverageExample
    /\ aggOut.result = calc(120, 60)

\* C21: getTotalPulses of an empty or single-sample window returns pulses 0
\* and time span 0, and getAverageWindSpeed on a window in which the
\* conditions select no sample (or one sample) calls the calculation
\* function once, with (0, 0).
C21_EmptyWindowIsZero ==
    (aggOut.fn = "getAverageWindSpeed" /\ Len(aggOut.window) <= 1) =>
        /\ getTotalPulses(aggOut.window) = [pulses |-> 0, timeSpan |-> 0]
        /\ aggOut.calcCalls = <<<<0, 0>>>>
        /\ aggOut.result = calc(0, 0)

\* C21 witness: getAverageWindSpeed has been asked for a time range that
\* holds none of the two retained samples and has called calc(0, 0).
C21_Witness ==
    /\ aggOut.fn = "getAverageWindSpeed"
    /\ Len(data) = 2
    /\ data[2].value > 0
    /\ aggOut.window = <<>>
    /\ aggOut.calcCalls = <<<<0, 0>>>>

\* the tick of timer t takes the step in which its read succeeds
ReadSucceeds(t) ==
    /\ timers[t].pc = "getCount"
    /\ Count(timers'[t].ops, "read_ok") = 1

\* the step of a tick that stores a successful read of v = counter
C22_StoreStep ==
    \A t \in Timers : ReadSucceeds(t) =>
        /\ Len(data') >= 1
        /\ data'[Len(data')] = DataRecord(counter, now)
        /\ counter' = counter
        /\ IF counter > RolloverThreshold
           THEN timers'[t].pc = "rollover"
           ELSE /\ timers'[t].pc = "idle"
                /\ EndsWith(timers'[t].ops, <<"read_ok", "clean", "push">>)

\* the step of a tick in which the setCount(0) after a reading above the
\* threshold settles
C22_RolloverStep ==
    \A t \in Timers : (timers[t].pc = "rollover" /\ timers'[t].pc # "rollover") =>
        IF EndsWith(timers'[t].ops, <<"setCount", "push">>)
        THEN /\ counter' = 0
             /\ data' \in {Append(data, DataRecord(0, now)),
                           Append(Shift(data), DataRecord(0, now))}
        ELSE /\ counter' = counter
             /\ data' = data

C23_CleanIsFirstStep ==
    \A t \in Timers :
        /\ Len(timers[t].ops) > 0 => timers[t].ops[1] = "clean"
        /\ AllReadsFailed(t) => Count(timers[t].ops, "clean") = 1

\* a byte whose high or low nibble is not a decimal digit
BadNibble(b) == b \div 16 > 9 \/ b % 16 > 9

\* C24: BCD round trip: for every integer x with 0 <= x <= 99,
\* bcdToByte(byteToBCD(x)) = x; byteToBCD(100) fails with an error; and
\* bcdToByte fails for every byte whose high or low nibble is greater than 9
\* (and for no other byte).
C24_BcdRoundTrip ==
    /\ aggOut.fn = "byteToBCD" =>
          /\ aggOut.arg \in 0..99 =>
                /\ ~aggOut.threw
                /\ aggOut.value = num((aggOut.arg \div 10) * 16 + (aggOut.arg % 10))
                /\ aggOut.back = Returns(num(aggOut.arg))
          /\ aggOut.arg >= 100 => aggOut.threw
    /\ aggOut.fn = "bcdToByte" => (aggOut.threw <=> BadNibble(aggOut.arg))

\* C24 witness: 99 has been encoded as the byte 0x99 and decoded as 99.
C24_Witness ==
    /\ aggOut.fn = "byteToBCD"
    /\ aggOut.arg = 99
    /\ aggOut.value = num(153)
    /\ aggOut.back = Returns(num(99))

\* C25: setCount(v) with v < 0 or v > 999999 fails with an invalid-value
\* error before any bus transaction is issued, so that the counter and the
\* control register of the device are as they were; and whenever getCount()
\* returns, it returns a value in [0, 999999].
C25_CountInRange ==
    /\ (aggOut.fn = "setCount" /\ (aggOut.arg < 0 \/ aggOut.arg > CounterLimit)) =>
          /\ aggOut.threw
          /\ aggOut.value = "InvalidValue"
          /\ bus = aggOut.before
    /\ (aggOut.fn = "getCount" /\ ~aggOut.threw) => aggOut.value \in 0..CounterLimit

\* C25 witness: setCount(1000000) on an open connection has failed and the
\* bus has seen no transaction.
C25_Witness ==
    /\ aggOut.fn = "setCount"
    /\ aggOut.arg = CounterLimit + 1
    /\ wire
    /\ aggOut.threw
    /\ bus.log = <<>>

\* what a bus call on a closed connection must leave alone
C26_Frame ==
    /\ data' = data
    /\ wire' = wire
    /\ readInterval' = readInterval
    /\ counter' = counter
    /\ mode' = mode

\* a bus call that was issued on a closed connection settles
C26_ClosedIoStep ==
    /\ \A c \in Calls :
          (calls[c].pc \in IoPcs /\ ~calls[c].live /\ calls'[c] # calls[c]) =>
              /\ calls'[c] = NoCall
              /\ lastDone' = Settled([calls[c] EXCEPT !.pc = "done", !.result = "ioError"])
              /\ C26_Frame
    /\ \A t \in Timers :
          (/\ timers[t].pc \in IoPcs
           /\ ~timers[t].live
           /\ timers'[t].pc # timers[t].pc \/ timers'[t].i # timers[t].i) =>
              /\ timers[t].pc = "getCount" =>
                    /\ timers'[t].pc \in {"getCount", "reset"}
                    /\ timers'[t].i = timers[t].i + 1
                    /\ timers'[t].ops = timers[t].ops \o runSave_catch(FALSE)
              /\ timers[t].pc # "getCount" =>
                    /\ timers'[t].pc = "idle"
                    /\ timers'[t].ops \in {<<>>, timers[t].ops \o <<"heal_fail">>}
              /\ C26_Frame

\* C26: a device call (getCount, setCount, reset, setMode) issued against a
\* connection that is not open, a call that follows a close() racing with it
\* included, fails with an error: it has no effect on the device, the caller
\* or the tick takes its failure path, and the History Window, isReady and
\* the connection stay as they were.
C26_ClosedIoFailsCleanly == [][C26_ClosedIoStep]_vars

\* C26 witness: the read of a tick that ran after the connection was closed
\* has failed, and the window still holds the sample it held before.
C26_Witness ==
    /\ ~wire
    /\ Len(data) > 0
    /\ \E t \in Timers :
          /\ timers[t].ops = <<"read_fail">>
          /\ ~timers[t].live
          /\ timers[t].pc = "reset"

\* this step is a call of History.push(value) that changed the window
PushStep == lastOp'.op = "push" /\ data' # data

\* appending one more sample would make the window exceed maxElements
WouldExceed == maxElements > 0 /\ Len(data) + 1 > maxElements

\* C27 as stated: push(value) evicts the oldest sample if and only if
\* maxElements > 0 and appending would make the size exceed maxElements; it
\* evicts exactly one sample in that case and none otherwise, then appends
\* {value, now}.
C27_PushEvictsOnlyWhenFull ==
    [][PushStep =>
          /\ Len(data') >= 1
          /\ data'[Len(data')].timestamp = now
          /\ data' = Append(IF WouldExceed THEN Tail(data) ELSE data, data'[Len(data')])]_vars

\* d without the samples that have expired at time ts
WithoutExpired(d, ts) ==
    SelectSeq(d, LAMBDA record : ~(record.timestamp < ts - expirationTime + 1))

\* the newest maxElements samples of d, all of d when there is no limit
Newest(d) == IF maxElements > 0 THEN SliceLast(d, maxElements) ELSE d

\* s is what is left of d after a number of its oldest samples are dropped
IsSuffix(s, d) ==
    /\ Len(s) <= Len(d)
    /\ s = SubSeq(d, Len(d) - Len(s) + 1, Len(d))

\* C28: clean() leaves exactly the sequence obtained by first removing every
\* sample with timestamp < now - expirationTime + 1 and then keeping the
\* newest maxElements of the rest (all of them with maxElements = 0); the
\* retained samples form a suffix of the window as it was before the call.
C28_CleanIsPrefixTrim ==
    [][CleanStep =>
          /\ data' = Newest(WithoutExpired(data, now))
          /\ IsSuffix(data', data)]_vars

\* C28 witness: clean() on a limited window has dropped the oldest sample,
\* which had expired, and kept the newest one.
C28_Witness ==
    /\ lastOp.op = "clean"
    /\ lastOp.at = now
    /\ lastOp.removed = 1
    /\ maxElements > 0
    /\ Len(data) = 1
    /\ data[1].timestamp = now

\* C29: in every reachable state the samples of the History Window are in
\* ascending (non-decreasing) timestamp order in insertion order: no push,
\* eviction or clean places a sample before an older one, the clock never
\* going backwards.
C29_AscendingTimestamps ==
    \A k \in 1..(Len(data) - 1) : data[k].timestamp <= data[k + 1].timestamp

\* C29 witness: after pushes in three different seconds the window holds the
\* samples of the last two seconds, the older one first.
C29_Witness ==
    /\ lastOp.op = "push"
    /\ now = 2
    /\ Len(data) = 2
    /\ data[1].timestamp = 1
    /\ data[2].timestamp = 2

\* C30: the query operations getData, getAverageWindSpeed, getPeakWindGust
\* and getHistoryData leave the content and the order of the History Window
\* unchanged, whatever conditions (order, limit, time filter) they are
\* given: the window is written by the Sampler only.
C30_QueriesLeaveWindow == [][aggOut' # aggOut => data' = data]_vars

\* C30 witness: getHistoryData with a time filter, order 'asc' and limit 1
\* has returned one of the two samples, and the window holds both as before.
C30_Witness ==
    /\ aggOut.fn = "getHistoryData"
    /\ aggOut.arg.order = "asc"
    /\ aggOut.arg.limit = 1
    /\ aggOut.arg.recentSeconds = MaxTs
    /\ Len(aggOut.window) = 1
    /\ Len(data) = 2
    /\ data[1].timestamp < data[2].timestamp

\* C31 as stated: under every interleaving of open() and close() calls on
\* one instance, isReady = true implies that the device connection is open.
C31_ReadyImpliesOpen == isReady => wire

\* the periodic tasks that are scheduled or have a tick running
LiveTasks == {t \in Timers : timers[t].status = "active" \/ TickInFlight(t)}

\* C32 as stated: under every interleaving of open() and close() calls on
\* one instance, at most one periodic task exists at any time, and once a
\* close() has resolved and no call is pending, every periodic task that was
\* started has been cancelled.
C32_OnePeriodicTask ==
    /\ Cardinality({t \in Timers : timers[t].status = "active"}) <= 1
    /\ (NoPending /\ lastDone.op = "close" /\ lastDone.result = "ok") => LiveTasks = {}

\* C33 as stated: a rejected lifecycle call leaves the lifecycle state
\* unchanged: after an open() that was called while Running has failed, the
\* periodic task is still scheduled and isReady is still true; after a
\* close() that was called while Closed has failed, the instance is Closed.
C33_RejectedCallKeepsState ==
    /\ (NoPending /\ lastDone.op = "open" /\ lastDone.from = "Running"
            /\ lastDone.result = "AlreadyOpen") =>
          /\ isReady
          /\ timers[readInterval].status = "active"
    /\ (NoPending /\ lastDone.op = "close" /\ lastDone.from = "Closed"
            /\ lastDone.result = "AlreadyClosed") =>
          LifecycleState = "Closed"

\* ---------------------------------------------------------------- liveness
\* a step of the periodic task
TickStep ==
    \E t \in Timers :
        tick_start(t) \/ tick_getCount(t) \/ tick_resetChip(t) \/ tick_rollover(t)

\* a step of the open() call
OpenStep ==
    \E c \in Calls :
        open_chipOpened(c) \/ open_resetChip(c) \/ open_setCount(c) \/ open_start(c)

\* a read attempt that succeeds: the tick cleans and stores the count
StoreStep == \E t \in Timers : tick_getCount(t) /\ Count(timers'[t].ops, "push") > 0

\* The sampler under the scheduling of the event loop: a timer that is due
\* fires and a settled bus call is delivered (weak fairness), and the bus
\* does not fail for ever (strong fairness of the successful read).
SpecLive ==
    /\ Spec
    /\ WF_vars(TickStep)
    /\ WF_vars(OpenStep)
    /\ SF_vars(StoreStep)

\* a tick is running
TickRunning == \E t \in Timers : timers[t].pc # "idle"

\* the last tick has run to its end and has stored the count it read
Sampled == \E t \in Timers : timers[t].pc = "idle" /\ Count(timers[t].ops, "push") > 0

\* C34 as stated: once open() has succeeded and nobody calls close(), the
\* periodic task stays scheduled and keeps firing, and whatever failed in a
\* tick (reads, the self-heal, the rollover setCount(0)), a later tick stores
\* a fresh sample.
C34_SamplingGoesOn ==
    /\ [](isReady => timers[readInterval].status = "active")
    /\ isReady ~> TickRunning
    /\ TickRunning ~> Sampled

\* the process has been ended by the rejection of a tick handler
Exited == \E t \in Timers : timers[t].status = "exited"

\* the same in a process that is not ended by a rejected handler
C34_SamplingGoesOnUnlessExited ==
    /\ [](isReady => timers[readInterval].status \in {"active", "exited"})
    /\ isReady ~> (TickRunning \/ Exited)
    /\ TickRunning ~> (Sampled \/ Exited)

\* ---------------------------------------------------------------- sampling
\* what the counter can take above the rollover threshold before it wraps
Headroom == CounterLimit - RolloverThreshold

\* the pulses of one burst of wind: just what C36 allows, and past the headroom
PulseAmounts == {Headroom - 1, Headroom + 1}

\* the one timer of the sampling specification
Sampler == 1

\* the wind delivers d pulses: once between two ticks, and once while a
\* tick waits for its setCount(0)
gust ==
    /\ mode = "counter"
    /\ \/ timers[Sampler].pc = "idle" /\ wind.burst = 0 /\ wind.ticks < MaxTicks
       \/ timers[Sampler].pc = "rollover" /\ wind.lost = 0
    /\ \E d \in PulseAmounts :
          /\ counter' = (counter + d) % (CounterLimit + 1)
          /\ wind' = [wind EXCEPT !.total = @ + d,
                                  !.burst = @ + d,
                                  !.maxBurst = IF wind.burst + d > @ THEN wind.burst + d ELSE @,
                                  !.lost = IF timers[Sampler].pc = "rollover" THEN @ + d ELSE @,
                                  !.wrapped = @ \/ counter + d > CounterLimit]
    /\ UNCHANGED <<config, now, data, wire, mode, pulsesLeft, readInterval, timers, callVars,
                   aggIn, aggOut, lastOp, returned, bus>>

\* a tick whose first getCount() succeeds: clean, push(count), and the
\* handler returns unless the count is above the threshold
sample ==
    /\ timers[Sampler].status = "active" /\ timers[Sampler].pc = "idle"
    /\ wind.ticks < MaxTicks
    /\ data' = push(clean(data, now), counter, now)
    /\ timers' = [timers EXCEPT ![Sampler].pc =
                                    IF nearRollover(counter) THEN "rollover" ELSE "idle"]
    /\ wind' = [wind EXCEPT !.sampled = wind.total,
                            !.ticks = @ + 1,
                            !.burst = IF nearRollover(counter) THEN @ ELSE 0]
    /\ UNCHANGED <<config, now, chipVars, pulsesLeft, readInterval, callVars,
                   aggIn, aggOut, lastOp, returned, bus>>

\* the setCount(0) of that tick succeeds: push(0), the handler returns
sample_rollover ==
    /\ timers[Sampler].pc = "rollover"
    /\ counter' = 0
    /\ data' = push(data, 0, now)
    /\ timers' = [timers EXCEPT ![Sampler].pc = "idle"]
    /\ wind' = [wind EXCEPT !.burst = 0]
    /\ UNCHANGED <<config, now, wire, mode, pulsesLeft, readInterval, callVars,
                   aggIn, aggOut, lastOp, returned, bus>>

\* The sampler after an open() that succeeded, with a window that evicts
\* nothing (no cap, the default expiration) and a bus that never fails.
InitSampling ==
    /\ retries = 1
    /\ readFailed = FALSE
    /\ maxElements = 0
    /\ expirationTime = DefaultExpiration
    /\ budget = 0
    /\ horizon = 0
    /\ pulsesLeft = 0
    /\ now = 0
    /\ data = <<DataRecord(0, 0)>>
    /\ wire = TRUE
    /\ counter = 0
    /\ mode = "counter"
    /\ readInterval = Sampler
    /\ timers = [t \in Timers |-> IF t = Sampler THEN [NoTimer EXCEPT !.status = "active"]
                                  ELSE NoTimer]
    /\ calls = [c \in Calls |-> NoCall]
    /\ nextCall = 2
    /\ lastDone = [op |-> "open", from |-> "Closed", result |-> "ok", ops |-> OpenSequence]
    /\ aggIn = <<>>
    /\ aggOut = [fn |-> "none", pulses |-> 0, timeSpan |-> 0]
    /\ lastOp = [op |-> "none"]
    /\ returned = [array |-> <<>>, shared |-> FALSE, held |-> FALSE, touched |-> FALSE]
    /\ bus = [control |-> ControlDefault + ModeCounter, count |-> <<0, 0, 0>>, log |-> <<>>]
    /\ wind = NoWind

NextSampling ==
    \/ gust
    \/ sample
    \/ sample_rollover

SpecSampling == InitSampling /\ [][NextSampling]_vars

\* C35 as stated: while all device calls succeed, nothing is evicted and no
\* pulse arrives between a tick's getCount() and its setCount(0),
\* getTotalPulses over the whole window is the number of pulses the device
\* has counted between the first and the last sample.
C35_TotalIsCounted ==
    wind.lost = 0 => getTotalPulses(data).pulses = wind.sampled

\* C35, amended: the same, as long as the device counter has not passed
\* 999999 between two ticks (at most 99999 pulses between two ticks).
C35_TotalIsCountedUnlessWrapped ==
    (wind.lost = 0 /\ ~wind.wrapped) => getTotalPulses(data).pulses = wind.sampled

\* a window that holds a count above the threshold, the zero of the rollover
\* and a later count, all counted rightly
C35_Witness ==
    /\ wind.lost = 0 /\ ~wind.wrapped
    /\ \E k \in 1..(Len(data) - 2) :
          /\ data[k].value > RolloverThreshold
          /\ data[k + 1].value = 0
          /\ data[k + 2].value > 0
    /\ getTotalPulses(data).pulses = wind.sampled
    /\ wind.sampled > CounterLimit

\* the tick has run to its end and no pulse has arrived since
TickEnded == timers[Sampler].pc = "idle" /\ wind.burst = 0

\* C36: when every device call succeeds and fewer than 99999 pulses arrive
\* between two ticks, the device counter never passes 999999, it is at most
\* 900000 at the end of every tick, and every stored value is in 0..999999.
C36_CounterNeverWraps ==
    wind.maxBurst < Headroom =>
        /\ ~wind.wrapped
        /\ TickEnded => counter <= RolloverThreshold
        /\ \A k \in 1..Len(data) : data[k].value \in 0..CounterLimit

\* after bursts of 99998 pulses a tick has read a count above the threshold
\* and has set the counter back to zero
C36_Witness ==
    /\ wind.maxBurst = Headroom - 1
    /\ TickEnded
    /\ counter = 0
    /\ Len(data) >= 2
    /\ data[Len(data) - 1].value > RolloverThreshold
    /\ data[Len(data)].value = 0

\* C37: on values in 0..999999 with timestamps that never decrease,
\* getTotalPulses returns pulses >= 0 and timeSpan >= 0, and
\* getMaxIncreaseRate returns step >= 0 and timeSpan >= 0: the negative step
\* across a reset is never returned, and without a pair of strictly positive
\* rate the result is (0, 0).
C37_NonNegativeResults ==
    /\ aggOut.fn = "getTotalPulses" => aggOut.pulses >= 0 /\ aggOut.timeSpan >= 0
    /\ aggOut.fn = "getMaxIncreaseRate" =>
          /\ aggOut.step >= 0 /\ aggOut.timeSpan >= 0
          /\ (\A i \in 1..(Len(aggIn) - 1) :
                 ~(PairSpan(aggIn, i) > 0 /\ PairStep(aggIn, i) > 0))
                => aggOut.step = 0 /\ aggOut.timeSpan = 0

\* getMaxIncreaseRate has run on a list that drops across a reset within a
\* positive time span and rises nowhere, and has returned (0, 0)
C37_Witness ==
    /\ aggOut.fn = "getMaxIncreaseRate"
    /\ \E i \in 1..(Len(aggIn) - 1) : PairSpan(aggIn, i) > 0 /\ PairStep(aggIn, i) < 0
    /\ \A i \in 1..(Len(aggIn) - 1) : PairStep(aggIn, i) <= 0
    /\ aggOut.step = 0 /\ aggOut.timeSpan = 0

\* C39: on every sample list with values in 0..999999 and timestamps that
\* never decrease, the legacy getPulsesFromSeries returns the pulses and the
\* duration that getTotalPulses returns as pulses and timeSpan.
C39_LegacyAccumulatorAgrees ==
    aggOut.fn = "getPulsesFromSeries" =>
        /\ aggOut.pulses = getTotalPulses(aggIn).pulses
        /\ aggOut.duration = getTotalPulses(aggIn).timeSpan

\* getPulsesFromSeries has run on a list that rises, stays, drops across a
\* reset and rises again
C39_Witness ==
    /\ aggOut.fn = "getPulsesFromSeries"
    /\ Len(aggIn) = 4
    /\ aggIn[1].value < aggIn[2].value
    /\ aggIn[2].value = aggIn[3].value
    /\ aggIn[4].value < aggIn[3].value
    /\ aggIn[4].value > 0
    /\ aggIn[1].timestamp < aggIn[4].timestamp
    /\ aggOut.pulses = aggIn[2].value - aggIn[1].value + aggIn[4].value

\* ---------------------------------------------------------------- the shift-loop buffer
\* Series.addData(value) and the earlier History.push(value)
addData(d, value, ts) ==
    Append(IF maxElements # 0 /\ Len(d) >= maxElements THEN Shift(d) ELSE d,
           DataRecord(value, ts))

\* while (this.data.length > this.maxElements) this.data.shift()
RECURSIVE capLoop(_)
capLoop(d) == IF Len(d) > maxElements THEN capLoop(Shift(d)) ELSE d

\* for (const x of this.data) { if (x.timestamp >= beginOfValidData) break;
\* this.data.shift(); }: the array iterator reads this.data[i] and steps i by
\* one, while every shift() moves the records one place down
RECURSIVE shiftLoop(_, _, _)
shiftLoop(d, i, beginOfValidData) ==
    IF i >= Len(d) THEN d
    ELSE IF d[i + 1].timestamp >= beginOfValidData THEN d
    ELSE shiftLoop(Shift(d), i + 1, beginOfValidData)

\* Series.cleanUp() and the earlier History.clean()
cleanUp(d, ts) ==
    shiftLoop(IF maxElements # 0 THEN capLoop(d) ELSE d, 0, ts - expirationTime + 1)

\* the owner of the buffer adds a value
series_addData(v) ==
    /\ Len(data) < MaxLen
    /\ data' = addData(data, v, now)
    /\ lastOp' = [op |-> "addData"]
    /\ UNCHANGED <<config, now, chipVars, pulsesLeft, readInterval, timers, callVars,
                   aggIn, aggOut, returned, bus, wind>>

\* the owner of the buffer calls cleanUp()
series_cleanUp ==
    /\ data' = cleanUp(data, now)
    /\ lastOp' = [op |-> "cleanUp", at |-> now, before |-> data]
    /\ UNCHANGED <<config, now, chipVars, pulsesLeft, readInterval, timers, callVars,
                   aggIn, aggOut, returned, bus, wind>>

InitSeries ==
    /\ retries = 1
    /\ readFailed = FALSE
    /\ maxElements \in 0..MaxElements
    /\ expirationTime \in 1..MaxExpiration
    /\ budget = 0
    /\ horizon = MaxNow
    /\ pulsesLeft = 0
    /\ aggIn = <<>>
    /\ Constructed

NextSeries ==
    \/ \E v \in HistValues : series_addData(v)
    \/ series_cleanUp
    \/ clock

SpecSeries == InitSeries /\ [][NextSeries]_vars

\* C38 as stated: one call of the shift-loop eviction removes every sample
\* with timestamp < now - expirationTime + 1, however many expired samples
\* stand at the old end of the buffer, and removes no sample that is still
\* valid.
C38_ShiftLoopRemovesExpired ==
    (lastOp.op = "cleanUp" /\ lastOp.at = now) =>
        /\ \A k \in DOMAIN data : ~(data[k].timestamp < now - expirationTime + 1)
        /\ IsSuffix(WithoutExpired(lastOp.before, now), data)

\* what does hold: the loop removes samples from the old end only, and
\* none that is still valid
C38_ShiftLoopKeepsValid ==
    (lastOp.op = "cleanUp" /\ lastOp.at = now) =>
        /\ IsSuffix(data, lastOp.before)
        /\ IsSuffix(WithoutExpired(lastOp.before, now), data)

====
